---- MODULE Spec2Model ----
(***************************************************************************)
(* Listing-fee lifecycle of vultisig/app-developer.                        *)
(*                                                                         *)
(* The listing_fees / plugin_policies / tx_indexer tables, the SQL         *)
(* statements of internal/db, the worker cycle (Consumer.process), the     *)
(* transaction syncer (TxSyncer.sync) and the API's lazy creation, each    *)
(* SQL statement and each external call being one atomic step.             *)
(***************************************************************************)
EXTENDS Integers, Sequences, FiniteSets, TLC

(***************************************************************************)
(* Bounds of the model.                                                    *)
(***************************************************************************)
NumPolicies == 2
NumTxHashes == 2
MaxBroadcasts == 2
MaxTime == 1
MaxQueue == 1

Policies == 1..NumPolicies
TxHashes == 1..NumTxHashes
Workers == {"w1", "w2"}
\* The processes that run a polling loop under a signal context.
Processes == Workers \cup {"syncer"}

(***************************************************************************)
(* SQL NULL and a non-null column value.                                   *)
(***************************************************************************)
NULL == <<>>
Some(v) == <<v>>

(***************************************************************************)
(* Policies as the policy service returns them: the payer's public key and *)
(* the recipe configuration map.  Policies 1 and 2 are two policies of the *)
(* same payer for the same target plugin (a resubmission); the others      *)
(* belong to a second payer.                                               *)
(***************************************************************************)
PolicyPublicKey(p) == IF p <= 2 THEN "pubkeyA" ELSE "pubkeyB"

PolicyConfiguration(p) ==
    [k \in {"targetPluginId", "target_plugin_id"} |-> "plugin-1"]

Scope(pk, target) == <<pk, target>>
PolicyScope(p) == Scope(PolicyPublicKey(p), PolicyConfiguration(p)["targetPluginId"])
Scopes == {PolicyScope(p) : p \in Policies}

(***************************************************************************)
(* Fee configuration (config.FeeConfig): FeeAmount is a decimal string,    *)
(* held here as its sequence of digits.                                    *)
(***************************************************************************)
FeeConfigs ==
    { [FeeAmount |-> <<1, 0, 0>>, TreasuryAddress |-> "0xTreasuryA",
       VultTokenAddress |-> "0xTokenA"],
      [FeeAmount |-> <<0, 2, 5>>, TreasuryAddress |-> "0xTreasuryB",
       VultTokenAddress |-> "0xTokenB"] }

InitialFeeConfig ==
    [FeeAmount |-> <<1, 0, 0>>, TreasuryAddress |-> "0xTreasuryA",
     VultTokenAddress |-> "0xTokenA"]

\* big.Int.SetString(s, 10): the value of a non-empty digit string; on failure
\* (the empty string) the freshly allocated big.Int keeps its zero value.
RECURSIVE SetString10(_)
SetString10(s) ==
    IF Len(s) = 0 THEN 0
    ELSE 10 * SetString10(SubSeq(s, 1, Len(s) - 1)) + s[Len(s)]

\* big.Int.String(): the canonical decimal digits, no leading zero.
RECURSIVE BigIntString(_)
BigIntString(n) ==
    IF n < 10 THEN <<n>> ELSE Append(BigIntString(n \div 10), n % 10)

(***************************************************************************)
(* listing_fees rows.                                                      *)
(***************************************************************************)
Statuses == {"pending", "submitted", "paid", "failed"}

\* The row an INSERT of the six given columns makes: the NUMERIC(78,0) column
\* reads the decimal text it is handed, every other column takes its default.
NewRow(id, fee, t) ==
    [ id               |-> id,
      policy_id        |-> fee.PolicyID,
      public_key       |-> fee.PublicKey,
      target_plugin_id |-> fee.TargetPluginID,
      amount           |-> SetString10(BigIntString(fee.Amount)),
      destination      |-> fee.Destination,
      tx_hash          |-> NULL,
      block_number     |-> NULL,
      confirmations    |-> 0,
      status           |-> fee.Status,
      submitted_at     |-> NULL,
      paid_at          |-> NULL,
      failure_reason   |-> NULL,
      created_at       |-> t,
      updated_at       |-> t ]

\* UNIQUE (policy_id)
PolicyIdConflict(rows, fee) ==
    \E r \in rows : r.policy_id = fee.PolicyID

\* CREATE UNIQUE INDEX idx_listing_fees_scope_pending
\*   ON listing_fees(public_key, target_plugin_id) WHERE status = 'pending'
ScopePendingConflict(rows, fee) ==
    /\ fee.Status = "pending"
    /\ \E r \in rows : /\ r.status = "pending"
                       /\ r.public_key = fee.PublicKey
                       /\ r.target_plugin_id = fee.TargetPluginID

\* tx_hash TEXT UNIQUE: another row already carries the hash.
TxHashConflict(rows, policyID, txHash) ==
    \E r \in rows : r.policy_id # policyID /\ r.tx_hash = Some(txHash)

\* The result of one SQL statement: the table after it, the rows it affected
\* and the error it raised ("" for none).
Result(rows, n, err) == [rows |-> rows, n |-> n, err |-> err]

\* gen_random_uuid(): an id no row carries.
FreshId(rows) == Cardinality(rows) + 1

\* The INSERT on a table that lacks idx_listing_fees_scope_pending.
\* The INSERT without the UNIQUE constraint on policy_id and without its
\* ON CONFLICT clause.
CreateListingFee_NoPolicyIndex(rows, fee, t) ==
    IF ScopePendingConflict(rows, fee) THEN Result(rows, 0, "unique_violation")
    ELSE Result(rows \cup {NewRow(FreshId(rows), fee, t)}, 1, "")

CreateListingFee_NoScopeIndex(rows, fee, t) ==
    IF PolicyIdConflict(rows, fee) THEN Result(rows, 0, "")
    ELSE Result(rows \cup {NewRow(FreshId(rows), fee, t)}, 1, "")

\* The INSERT written as an upsert: ON CONFLICT (policy_id) DO UPDATE SET
\* amount = EXCLUDED.amount, destination = EXCLUDED.destination.
CreateListingFee_Upsert(rows, fee, t) ==
    IF PolicyIdConflict(rows, fee)
    THEN Result({IF r.policy_id = fee.PolicyID
                 THEN [r EXCEPT !.amount = SetString10(BigIntString(fee.Amount)),
                                !.destination = fee.Destination]
                 ELSE r : r \in rows}, 1, "")
    ELSE IF ScopePendingConflict(rows, fee) THEN Result(rows, 0, "unique_violation")
    ELSE Result(rows \cup {NewRow(FreshId(rows), fee, t)}, 1, "")

\* INSERT INTO listing_fees (...) VALUES (...) ON CONFLICT (policy_id) DO NOTHING
CreateListingFee(rows, fee, t) ==
    IF PolicyIdConflict(rows, fee) THEN Result(rows, 0, "")
    ELSE IF ScopePendingConflict(rows, fee) THEN Result(rows, 0, "unique_violation")
    ELSE Result(rows \cup {NewRow(FreshId(rows), fee, t)}, 1, "")

\* UPDATE ... SET <changes> WHERE policy_id = $1 AND status IN from
UpdateWhere(rows, policyID, from, change(_)) ==
    LET hit == {r \in rows : r.policy_id = policyID /\ r.status \in from}
    IN  Result((rows \ hit) \cup {change(r) : r \in hit}, Cardinality(hit), "")

\* MarkAsSubmitted that does not store the hash it is given.
MarkAsSubmitted_NoHash(rows, policyID, txHash, t) ==
    LET change(r) == [r EXCEPT !.status = "submitted", !.submitted_at = Some(t),
                               !.updated_at = t]
    IN  UpdateWhere(rows, policyID, {"pending"}, change)

\* MarkAsSubmitted without "AND status = 'pending'".
MarkAsSubmitted_AnyStatus(rows, policyID, txHash, t) ==
    LET change(r) == [r EXCEPT !.status = "submitted", !.tx_hash = Some(txHash),
                               !.submitted_at = Some(t), !.updated_at = t]
        res == UpdateWhere(rows, policyID, Statuses, change)
    IN  IF res.n > 0 /\ TxHashConflict(rows, policyID, txHash)
        THEN Result(rows, 0, "unique_violation")
        ELSE res

\* MarkAsSubmitted on a table whose tx_hash column is not UNIQUE.
MarkAsSubmitted_NoUniqueHash(rows, policyID, txHash, t) ==
    LET change(r) == [r EXCEPT !.status = "submitted", !.tx_hash = Some(txHash),
                               !.submitted_at = Some(t), !.updated_at = t]
    IN  UpdateWhere(rows, policyID, {"pending"}, change)

MarkAsSubmitted(rows, policyID, txHash, t) ==
    LET change(r) == [r EXCEPT !.status = "submitted", !.tx_hash = Some(txHash),
                               !.submitted_at = Some(t), !.updated_at = t]
        res == UpdateWhere(rows, policyID, {"pending"}, change)
    IN  IF res.n > 0 /\ TxHashConflict(rows, policyID, txHash)
        THEN Result(rows, 0, "unique_violation")
        ELSE res

MarkAsPaid(rows, policyID, blockNum, confirmations, t) ==
    LET change(r) == [r EXCEPT !.status = "paid", !.block_number = Some(blockNum),
                               !.confirmations = confirmations,
                               !.paid_at = Some(t), !.updated_at = t]
    IN  UpdateWhere(rows, policyID, {"submitted"}, change)

\* MarkAsFailed written as a DELETE of the fee.
MarkAsFailed_Deletes(rows, policyID, reason, t) ==
    LET hit == {r \in rows : r.policy_id = policyID /\ r.status \in {"pending", "submitted"}}
    IN  Result(rows \ hit, Cardinality(hit), "")

\* MarkAsFailed without "AND status IN ('pending', 'submitted')".
MarkAsFailed_AnyStatus(rows, policyID, reason, t) ==
    LET change(r) == [r EXCEPT !.status = "failed", !.failure_reason = Some(reason),
                               !.updated_at = t]
    IN  UpdateWhere(rows, policyID, Statuses, change)

\* MarkAsFailed that sets the status and leaves failure_reason as it was.
MarkAsFailed_NoReason(rows, policyID, reason, t) ==
    LET change(r) == [r EXCEPT !.status = "failed", !.updated_at = t]
    IN  UpdateWhere(rows, policyID, {"pending", "submitted"}, change)

\* UPDATE listing_fees SET status = 'failed', failure_reason = $2, ...
\* WHERE policy_id = $1 AND status IN ('pending', 'submitted')
MarkAsFailed(rows, policyID, reason, t) ==
    LET change(r) == [r EXCEPT !.status = "failed", !.failure_reason = Some(reason),
                               !.updated_at = t]
    IN  UpdateWhere(rows, policyID, {"pending", "submitted"}, change)

UpdateConfirmations(rows, policyID, confirmations, t) ==
    LET change(r) == [r EXCEPT !.confirmations = confirmations, !.updated_at = t]
    IN  UpdateWhere(rows, policyID, Statuses, change)

\* The paid update without "AND lf.status = 'submitted'".
SyncPaidFees_AnyStatus(rows, ti, t) ==
    LET hit == {r \in rows : \E i \in DOMAIN ti[r.policy_id] :
                                   ti[r.policy_id][i].status_onchain = "SUCCESS"}
        change(r) == [r EXCEPT !.status = "paid", !.paid_at = Some(t), !.updated_at = t]
    IN  Result((rows \ hit) \cup {change(r) : r \in hit}, Cardinality(hit), "")

\* SyncPaidFees that sets the status and leaves paid_at NULL.
SyncPaidFees_NoPaidAt(rows, ti, t) ==
    LET hit == {r \in rows : /\ r.status = "submitted"
                             /\ \E i \in DOMAIN ti[r.policy_id] :
                                   ti[r.policy_id][i].status_onchain = "SUCCESS"}
        change(r) == [r EXCEPT !.status = "paid", !.updated_at = t]
    IN  Result((rows \ hit) \cup {change(r) : r \in hit}, Cardinality(hit), "")

\* UPDATE listing_fees lf SET status = 'paid', ... FROM tx_indexer ti
\* WHERE ti.policy_id = lf.policy_id AND lf.status = 'submitted'
\*   AND ti.status_onchain = 'SUCCESS'
SyncPaidFees(rows, ti, t) ==
    LET hit == {r \in rows : /\ r.status = "submitted"
                             /\ \E i \in DOMAIN ti[r.policy_id] :
                                   ti[r.policy_id][i].status_onchain = "SUCCESS"}
        change(r) == [r EXCEPT !.status = "paid", !.paid_at = Some(t), !.updated_at = t]
    IN  Result((rows \ hit) \cup {change(r) : r \in hit}, Cardinality(hit), "")

\* The tx_indexer rows an UPDATE ... FROM may join a fee row with: when several
\* match, the row is updated once, from any one of them.
FailedJoin(ti, r) ==
    {i \in DOMAIN ti[r.policy_id] :
        ti[r.policy_id][i].status_onchain = "FAIL" \/ ti[r.policy_id][i].lost}

FailureReasonOf(tx) ==
    IF tx.lost THEN "transaction lost" ELSE "transaction failed on-chain"

\* UPDATE listing_fees lf SET status = 'failed', failure_reason = CASE ... END
\* FROM tx_indexer ti WHERE ti.policy_id = lf.policy_id
\*   AND lf.status = 'submitted' AND (ti.status_onchain = 'FAIL' OR ti.lost = true)
\* pick[policy_id] names the joined tx_indexer row the update is made from.
SyncFailedFees(rows, ti, pick, t) ==
    LET hit == {r \in rows : r.status = "submitted" /\ FailedJoin(ti, r) # {}}
        change(r) == [r EXCEPT !.status = "failed",
                               !.failure_reason =
                                   Some(FailureReasonOf(ti[r.policy_id][pick[r.policy_id]])),
                               !.updated_at = t]
    IN  Result((rows \ hit) \cup {change(r) : r \in hit}, Cardinality(hit), "")

\* DeactivatePolicy that sets active = false and records no reason.
DeactivatePolicy_NoReason(pp, policyID, reason) ==
    IF pp[policyID].active
    THEN [pp EXCEPT ![policyID] = [active |-> FALSE, deactivation_reason |-> NULL]]
    ELSE pp

\* DeactivatePolicy without "AND active = true".
DeactivatePolicy_Unconditional(pp, policyID, reason) ==
    [pp EXCEPT ![policyID] = [active |-> FALSE, deactivation_reason |-> Some(reason)]]

\* UPDATE plugin_policies SET active = false, deactivation_reason = $2
\* WHERE id = $1 AND active = true
DeactivatePolicy(pp, policyID, reason) ==
    IF pp[policyID].active
    THEN [pp EXCEPT ![policyID] = [active |-> FALSE, deactivation_reason |-> Some(reason)]]
    ELSE pp

(***************************************************************************)
(* Queries.                                                                *)
(***************************************************************************)
\* SELECT ... WHERE policy_id = $1: the row, or NULL for pgx.ErrNoRows.
GetListingFeeByPolicyID(rows, policyID) ==
    LET hit == {r \in rows : r.policy_id = policyID}
    IN  IF hit = {} THEN NULL ELSE Some(CHOOSE r \in hit : TRUE)

\* GetListingFeeByScope without "public_key = $1".
GetListingFeeByScope_AnyKey(rows, publicKey, pluginID) ==
    LET hit == {r \in rows : r.target_plugin_id = pluginID}
        newest == {r \in hit : \A x \in hit : x.created_at <= r.created_at}
    IN  IF hit = {} THEN {NULL} ELSE {Some(r) : r \in newest}

\* SELECT ... WHERE public_key = $1 AND target_plugin_id = $2
\*   ORDER BY created_at DESC LIMIT 1
\* The results the query can give: NULL for pgx.ErrNoRows (scanListingFee
\* returns nil, nil), else the newest row; rows of one created_at are in no order.
GetListingFeeByScope(rows, publicKey, pluginID) ==
    LET hit == {r \in rows : r.public_key = publicKey /\ r.target_plugin_id = pluginID}
        newest == {r \in hit : \A x \in hit : x.created_at <= r.created_at}
    IN  IF hit = {} THEN {NULL} ELSE {Some(r) : r \in newest}

\* SELECT ... WHERE public_key = $1 AND target_plugin_id = $2
\*   AND status = 'pending' LIMIT 1
GetPendingListingFeeByScope(rows, publicKey, pluginID) ==
    LET hit == {r \in rows : /\ r.public_key = publicKey
                             /\ r.target_plugin_id = pluginID
                             /\ r.status = "pending"}
    IN  IF hit = {} THEN NULL ELSE Some(CHOOSE r \in hit : TRUE)

GetPendingListingFees(rows) == {r \in rows : r.status = "pending"}

GetSubmittedListingFees(rows) == {r \in rows : r.status = "submitted"}

\* GetPaidActivePolicyIDs without "lf.status = 'paid'".
GetPaidActivePolicyIDs_AnyStatus(rows, pp) ==
    {r.policy_id : r \in {x \in rows : pp[x.policy_id].active}}

\* SELECT lf.policy_id FROM listing_fees lf JOIN plugin_policies pp
\*   ON pp.id = lf.policy_id WHERE lf.status = 'paid' AND pp.active = true
GetPaidActivePolicyIDs(rows, pp) ==
    {r.policy_id : r \in {x \in rows : x.status = "paid" /\ pp[x.policy_id].active}}

\* SELECT EXISTS(... status IN ('pending', 'submitted', 'paid'))
HasActiveListingFee(rows, publicKey, targetPluginID) ==
    \E r \in rows : /\ r.public_key = publicKey
                     /\ r.target_plugin_id = targetPluginID
                     /\ r.status \in {"pending", "submitted", "paid"}

\* SELECT pp.id FROM plugin_policies pp LEFT JOIN listing_fees lf
\*   ON lf.policy_id = pp.id WHERE pp.active = true AND lf.id IS NULL
GetUnprocessedPolicyIDs(rows, pp) ==
    {p \in DOMAIN pp : pp[p].active /\ ~\E r \in rows : r.policy_id = p}

(***************************************************************************)
(* State.                                                                  *)
(***************************************************************************)
VARIABLES
    listing_fees,     \* the listing_fees table: a set of rows
    plugin_policies,  \* the plugin_policies table: policy id -> row
    tx_indexer,       \* the tx_indexer table: policy id -> its rows, oldest first
    feeConfig,        \* config.FeeConfig the processes were started with
    now,              \* CURRENT_TIMESTAMP
    broadcasts,       \* policy id -> the transfers SignAndBroadcast sent for it, in order
    worker,           \* Consumer.process of each worker: where it stands
    syncer,           \* TxSyncer.sync: where it stands
    api,              \* the API request in flight (handleGetListingFee)
    last,             \* the last store call or request: what it was and returned
    queue,            \* the asynq queue: the policy ids of the tasks enqueued, in order
    ctx               \* the signal context of each process: "live" or "cancelled"

vars == <<listing_fees, plugin_policies, tx_indexer, feeConfig, now, broadcasts,
          worker, syncer, api, last, queue, ctx>>

WorkerIdle == [pc |-> "idle", batch |-> {}, policyID |-> 0, fee |-> NULL,
               txHash |-> NULL, err |-> ""]
SyncerIdle == [pc |-> "idle", batch |-> {}]
ApiIdle == [pc |-> "idle", policyID |-> 0]
NoCall == [op |-> "", by |-> "", policyID |-> 0, err |-> "", n |-> 0, id |-> 0]

Call(op, by, policyID, err, n, id) ==
    [op |-> op, by |-> by, policyID |-> policyID, err |-> err, n |-> n, id |-> id]

Init ==
    /\ listing_fees = {}
    /\ plugin_policies = [p \in Policies |-> [active |-> TRUE, deactivation_reason |-> NULL]]
    /\ tx_indexer = [p \in Policies |-> <<>>]
    /\ feeConfig = InitialFeeConfig
    /\ now = 0
    /\ broadcasts = [p \in Policies |-> <<>>]
    /\ worker = [w \in Workers |-> WorkerIdle]
    /\ syncer = SyncerIdle
    /\ api = ApiIdle
    /\ last = NoCall
    /\ queue = <<>>
    /\ ctx = [x \in Processes |-> "live"]

BroadcastCount(p) == Len(broadcasts[p])

RECURSIVE SumOver(_, _)
SumOver(f, S) ==
    IF S = {} THEN 0
    ELSE LET x == CHOOSE y \in S : TRUE IN f[x] + SumOver(f, S \ {x})

\* The transfers sent so far, over all policies.
TotalBroadcasts == SumOver([p \in Policies |-> BroadcastCount(p)], Policies)

(***************************************************************************)
(* Consumer.process: the four passes of one worker cycle.                  *)
(***************************************************************************)
\* ticker.C fires: createListingFeesForNewPolicies reads the unprocessed policies.
WorkerTick(w) ==
    /\ worker[w].pc = "idle"
    /\ worker' = [worker EXCEPT ![w] =
          [WorkerIdle EXCEPT !.pc = "create",
                             !.batch = GetUnprocessedPolicyIDs(listing_fees, plugin_policies)]]
    /\ UNCHANGED <<listing_fees, plugin_policies, tx_indexer, feeConfig, now,
                   broadcasts, syncer, api, last, queue, ctx>>

\* The db.ListingFee that Consumer.createListingFee and lazyCreateListingFee build.
PendingFee(policyID, targetPluginID, cfg) ==
    [ PolicyID       |-> policyID,
      PublicKey      |-> PolicyPublicKey(policyID),
      TargetPluginID |-> targetPluginID,
      Amount         |-> SetString10(cfg.FeeAmount),
      Destination    |-> cfg.TreasuryAddress,
      Status         |-> "pending" ]

\* Consumer.createListingFee for one policy of the batch.
WorkerCreate(w) ==
    /\ worker[w].pc = "create"
    /\ \E p \in worker[w].batch :
         LET cfgMap == PolicyConfiguration(p)
             ok == "targetPluginId" \in DOMAIN cfgMap /\ cfgMap["targetPluginId"] # ""
             res == IF ok
                    THEN CreateListingFee(listing_fees,
                            PendingFee(p, cfgMap["targetPluginId"], feeConfig), now)
                    ELSE Result(listing_fees, 0, "missing targetPluginId in configuration")
         IN  /\ listing_fees' = res.rows
             /\ worker' = [worker EXCEPT ![w].batch = @ \ {p}]
    /\ UNCHANGED <<plugin_policies, tx_indexer, feeConfig, now, broadcasts, syncer, api, last,
                   queue, ctx>>

\* executePendingFees reads the pending fees.
WorkerExecuteQuery(w) ==
    /\ worker[w].pc = "create"
    /\ worker[w].batch = {}
    /\ worker' = [worker EXCEPT ![w].pc = "execute",
                                ![w].batch = {r.policy_id : r \in GetPendingListingFees(listing_fees)}]
    /\ UNCHANGED <<listing_fees, plugin_policies, tx_indexer, feeConfig, now,
                   broadcasts, syncer, api, last, queue, ctx>>

\* execute without the test of fee.Status.
WorkerExecuteLoad_NoStatusCheck(w) ==
    /\ worker[w].pc = "execute"
    /\ \E p \in worker[w].batch :
         LET fee == GetListingFeeByPolicyID(listing_fees, p)
             err == IF fee = NULL THEN "listing fee not found" ELSE ""
         IN  worker' = [worker EXCEPT ![w] =
                 [@ EXCEPT !.batch = @ \ {p}, !.policyID = p,
                           !.pc = IF err = "" THEN "loaded" ELSE "exec_failed",
                           !.fee = IF err = "" THEN fee ELSE NULL,
                           !.err = err]]
    /\ UNCHANGED <<listing_fees, plugin_policies, tx_indexer, feeConfig, now,
                   broadcasts, syncer, api, last, queue, ctx>>

\* execute, lines 193-202: load the fee and refuse one that is not pending.
WorkerExecuteLoad(w) ==
    /\ worker[w].pc = "execute"
    /\ \E p \in worker[w].batch :
         LET fee == GetListingFeeByPolicyID(listing_fees, p)
             err == IF fee = NULL THEN "listing fee not found"
                    ELSE IF fee[1].status # "pending"
                         THEN "listing fee is not in pending state"
                         ELSE ""
         IN  worker' = [worker EXCEPT ![w] =
                 [@ EXCEPT !.batch = @ \ {p}, !.policyID = p,
                           !.pc = IF err = "" THEN "loaded" ELSE "exec_failed",
                           !.fee = IF err = "" THEN fee ELSE NULL,
                           !.err = err]]
    /\ UNCHANGED <<listing_fees, plugin_policies, tx_indexer, feeConfig, now,
                   broadcasts, syncer, api, last, queue, ctx>>

\* The hashes SignAndBroadcast can return: that of a transaction sent before (the
\* identical transaction sent again) or a new one; hashes are opaque, so the new
\* one is the next unused number.
SentHashes(bc) == UNION {{bc[p][i].tx_hash : i \in DOMAIN bc[p]} : p \in DOMAIN bc}
BroadcastHashes(bc) == {h \in TxHashes : h <= Cardinality(SentHashes(bc)) + 1}

\* The transfer execute builds: to fee.Destination, of fee.Amount, of the token
\* the live configuration names.
Transfer(policyID, fee, txHash) ==
    [policy_id |-> policyID, tx_hash |-> txHash, to |-> fee.destination,
     amount |-> fee.amount, token |-> feeConfig.VultTokenAddress]

\* execute with the status written together with the broadcast, not after it
\* has returned.
WorkerBroadcast_WriteFirst(w) ==
    /\ worker[w].pc = "loaded"
    /\ TotalBroadcasts < MaxBroadcasts
    /\ \E h \in BroadcastHashes(broadcasts) :
         /\ listing_fees' = MarkAsSubmitted(listing_fees, worker[w].policyID, h, now).rows
         /\ broadcasts' = [broadcasts EXCEPT ![worker[w].policyID] =
                              Append(@, Transfer(worker[w].policyID, worker[w].fee[1], h))]
         /\ tx_indexer' = [tx_indexer EXCEPT ![worker[w].policyID] =
                              Append(@, [status_onchain |-> "", lost |-> FALSE])]
         /\ worker' = [worker EXCEPT ![w].pc = "sent", ![w].txHash = Some(h)]
    /\ UNCHANGED <<plugin_policies, feeConfig, now, syncer, api, last, queue, ctx>>

\* execute, lines 204-225: GetPluginPolicy, deriveAddress, MakeTxTransferERC20
\* and SignAndBroadcast succeed; the transfer is sent and tracked by tx_indexer.
WorkerBroadcast(w) ==
    /\ worker[w].pc = "loaded"
    /\ TotalBroadcasts < MaxBroadcasts
    /\ \E h \in BroadcastHashes(broadcasts) :
         /\ broadcasts' = [broadcasts EXCEPT ![worker[w].policyID] =
                              Append(@, Transfer(worker[w].policyID, worker[w].fee[1], h))]
         /\ tx_indexer' = [tx_indexer EXCEPT ![worker[w].policyID] =
                              Append(@, [status_onchain |-> "", lost |-> FALSE])]
         /\ worker' = [worker EXCEPT ![w].pc = "sent", ![w].txHash = Some(h)]
    /\ UNCHANGED <<listing_fees, plugin_policies, feeConfig, now, syncer, api, last, queue, ctx>>

ExecuteErrors ==
    { "failed to get policy", "failed to sign and broadcast" }

\* execute, lines 204-225: one of the external calls fails; nothing is sent.
WorkerBroadcastFails(w) ==
    /\ worker[w].pc = "loaded"
    /\ \E e \in ExecuteErrors :
         worker' = [worker EXCEPT ![w].pc = "exec_failed", ![w].err = e, ![w].fee = NULL]
    /\ UNCHANGED <<listing_fees, plugin_policies, tx_indexer, feeConfig, now,
                   broadcasts, syncer, api, last, queue, ctx>>

\* execute, lines 227-237: MarkAsSubmitted with the hash of the broadcast.
WorkerMarkSubmitted(w) ==
    /\ worker[w].pc = "sent"
    /\ LET res == MarkAsSubmitted(listing_fees, worker[w].policyID, worker[w].txHash[1], now)
       IN  /\ listing_fees' = res.rows
           /\ worker' = [worker EXCEPT ![w] =
                  IF res.err = ""
                  THEN [@ EXCEPT !.pc = "execute", !.policyID = 0, !.fee = NULL, !.txHash = NULL]
                  ELSE [@ EXCEPT !.pc = "exec_failed", !.fee = NULL, !.txHash = NULL,
                                 !.err = "failed to mark as submitted"]]
    /\ UNCHANGED <<plugin_policies, tx_indexer, feeConfig, now, broadcasts, syncer, api, last,
                   queue, ctx>>

\* executePendingFees that logs the error of execute and writes nothing.
WorkerMarkFailed_LogsOnly(w) ==
    /\ worker[w].pc = "exec_failed"
    /\ worker' = [worker EXCEPT ![w] = [@ EXCEPT !.pc = "execute", !.policyID = 0, !.err = ""]]
    /\ UNCHANGED <<listing_fees, plugin_policies, tx_indexer, feeConfig, now, broadcasts,
                   syncer, api, last, queue, ctx>>

\* executePendingFees, lines 182-188: execute returned an error.
WorkerMarkFailed(w) ==
    /\ worker[w].pc = "exec_failed"
    /\ LET res == MarkAsFailed(listing_fees, worker[w].policyID, worker[w].err, now)
       IN  listing_fees' = res.rows
    /\ worker' = [worker EXCEPT ![w] = [@ EXCEPT !.pc = "execute", !.policyID = 0, !.err = ""]]
    /\ UNCHANGED <<plugin_policies, tx_indexer, feeConfig, now, broadcasts, syncer, api, last,
                   queue, ctx>>

\* syncSubmittedFees: the first statement of SyncSubmittedFees.
WorkerSyncPaid(w) ==
    /\ worker[w].pc = "execute"
    /\ worker[w].batch = {}
    /\ LET res == SyncPaidFees(listing_fees, tx_indexer, now)
       IN  listing_fees' = res.rows
    /\ worker' = [worker EXCEPT ![w].pc = "sync_failed"]
    /\ UNCHANGED <<plugin_policies, tx_indexer, feeConfig, now, broadcasts, syncer, api, last,
                   queue, ctx>>

\* SyncSubmittedFees returns an error, from its first statement or from its
\* second: syncSubmittedFees logs it and returns.
WorkerSyncFails(w) ==
    /\ \/ worker[w].pc = "execute" /\ worker[w].batch = {}
       \/ worker[w].pc = "sync_failed"
    /\ worker' = [worker EXCEPT ![w].pc = "sync_done"]
    /\ UNCHANGED <<listing_fees, plugin_policies, tx_indexer, feeConfig, now,
                   broadcasts, syncer, api, last, queue, ctx>>

\* The joined tx_indexer row each fee is updated from.
JoinPicks(rows, ti) ==
    { pick \in [Policies -> 1..MaxBroadcasts] :
        \A p \in Policies :
            LET hit == {r \in rows : r.policy_id = p /\ r.status = "submitted"
                                     /\ FailedJoin(ti, r) # {}}
            IN  IF hit = {} THEN pick[p] = 1
                ELSE \A r \in hit : pick[p] \in FailedJoin(ti, r) }

\* syncSubmittedFees: the second statement of SyncSubmittedFees.
WorkerSyncFailed(w) ==
    /\ worker[w].pc = "sync_failed"
    /\ \E pick \in JoinPicks(listing_fees, tx_indexer) :
         LET res == SyncFailedFees(listing_fees, tx_indexer, pick, now)
         IN  listing_fees' = res.rows
    /\ worker' = [worker EXCEPT ![w].pc = "sync_done"]
    /\ UNCHANGED <<plugin_policies, tx_indexer, feeConfig, now, broadcasts, syncer, api, last,
                   queue, ctx>>

\* process with deactivatePaidPolicies called ahead of syncSubmittedFees.
WorkerDeactivateQuery_BeforeSettlement(w) ==
    /\ worker[w].pc = "execute"
    /\ worker[w].batch = {}
    /\ worker' = [worker EXCEPT ![w].pc = "deactivate",
                                ![w].batch = GetPaidActivePolicyIDs(listing_fees, plugin_policies)]
    /\ UNCHANGED <<listing_fees, plugin_policies, tx_indexer, feeConfig, now,
                   broadcasts, syncer, api, last, queue, ctx>>

\* deactivatePaidPolicies reads the paid fees of active policies.
WorkerDeactivateQuery(w) ==
    /\ worker[w].pc = "sync_done"
    /\ worker' = [worker EXCEPT ![w].pc = "deactivate",
                                ![w].batch = GetPaidActivePolicyIDs(listing_fees, plugin_policies)]
    /\ UNCHANGED <<listing_fees, plugin_policies, tx_indexer, feeConfig, now,
                   broadcasts, syncer, api, last, queue, ctx>>

\* deactivatePaidPolicies, lines 163-170: DeactivatePolicy for one policy of the list.
WorkerDeactivate(w) ==
    /\ worker[w].pc = "deactivate"
    /\ \E p \in worker[w].batch :
         /\ plugin_policies' = DeactivatePolicy(plugin_policies, p, "completed")
         /\ worker' = [worker EXCEPT ![w].batch = @ \ {p}]
    /\ UNCHANGED <<listing_fees, tx_indexer, feeConfig, now, broadcasts, syncer, api, last,
                   queue, ctx>>

\* process returns; the loop of Run waits for the next tick.
WorkerCycleDone(w) ==
    /\ worker[w].pc = "deactivate"
    /\ worker[w].batch = {}
    /\ worker' = [worker EXCEPT ![w] = WorkerIdle]
    /\ UNCHANGED <<listing_fees, plugin_policies, tx_indexer, feeConfig, now,
                   broadcasts, syncer, api, last, queue, ctx>>

\* The worker process dies (a crash, a kill) anywhere in its cycle and is
\* started again: what it held in memory is gone, the tables stay.
WorkerCrash(w) ==
    /\ worker[w].pc # "idle"
    /\ worker' = [worker EXCEPT ![w] = WorkerIdle]
    /\ UNCHANGED <<listing_fees, plugin_policies, tx_indexer, feeConfig, now,
                   broadcasts, syncer, api, last, queue, ctx>>

(***************************************************************************)
(* TxSyncer.sync.                                                          *)
(***************************************************************************)
SyncerTick ==
    /\ syncer.pc = "idle"
    /\ syncer' = [pc |-> "sync",
                  batch |-> {r.policy_id : r \in GetSubmittedListingFees(listing_fees)}]
    /\ UNCHANGED <<listing_fees, plugin_policies, tx_indexer, feeConfig, now,
                   broadcasts, worker, api, last, queue, ctx>>

\* txIndexer.GetByPolicyID(ctx, policyID, 0, 1): the newest transaction of the
\* policy, if any.
GetByPolicyID(ti, policyID) ==
    IF Len(ti[policyID]) = 0 THEN <<>> ELSE <<ti[policyID][Len(ti[policyID])]>>

\* The body of the loop of sync for one fee, lines 59-104.
SyncFee(rows, ti, policyID, t) ==
    LET txs == GetByPolicyID(ti, policyID)
    IN  IF Len(txs) = 0 THEN rows
        ELSE IF txs[1].status_onchain = "" THEN rows
        ELSE LET afterSwitch ==
                    IF txs[1].status_onchain = "SUCCESS"
                    THEN MarkAsPaid(rows, policyID, 0, 1, t).rows
                    ELSE IF txs[1].status_onchain = "FAIL"
                    THEN MarkAsFailed(rows, policyID, "transaction failed on-chain", t).rows
                    ELSE rows
             IN  IF txs[1].lost
                 THEN MarkAsFailed(afterSwitch, policyID, "transaction lost", t).rows
                 ELSE afterSwitch

SyncerStep ==
    /\ syncer.pc = "sync"
    /\ \E p \in syncer.batch :
         /\ listing_fees' = SyncFee(listing_fees, tx_indexer, p, now)
         /\ syncer' = [syncer EXCEPT !.batch = @ \ {p}]
    /\ UNCHANGED <<plugin_policies, tx_indexer, feeConfig, now, broadcasts, worker, api, last,
                   queue, ctx>>

SyncerDone ==
    /\ syncer.pc = "sync"
    /\ syncer.batch = {}
    /\ syncer' = SyncerIdle
    /\ UNCHANGED <<listing_fees, plugin_policies, tx_indexer, feeConfig, now,
                   broadcasts, worker, api, last, queue, ctx>>

(***************************************************************************)
(* DeveloperAPI.handleGetListingFee and lazyCreateListingFee.              *)
(***************************************************************************)
\* handleGetListingFee, lines 72-93: the fee of the policy exists and is
\* returned, or lazy creation starts.
ApiGetListingFee(p) ==
    /\ api.pc = "idle"
    /\ LET fee == GetListingFeeByPolicyID(listing_fees, p)
       IN  IF fee # NULL
           THEN /\ api' = ApiIdle
                /\ last' = Call("handleGetListingFee", "api", p, "", 0, fee[1].id)
           ELSE /\ api' = [pc |-> "lazy", policyID |-> p]
                /\ last' = last
    /\ UNCHANGED <<listing_fees, plugin_policies, tx_indexer, feeConfig, now,
                   broadcasts, worker, syncer, queue, ctx>>

\* lazyCreateListingFee, lines 161-183: resolve the scope and look for a pending
\* fee of it.
ApiLazyLookup ==
    /\ api.pc = "lazy"
    /\ LET p == api.policyID
           cfgMap == PolicyConfiguration(p)
           ok == "target_plugin_id" \in DOMAIN cfgMap /\ cfgMap["target_plugin_id"] # ""
           existing == IF ok
                       THEN GetPendingListingFeeByScope(listing_fees, PolicyPublicKey(p),
                                                        cfgMap["target_plugin_id"])
                       ELSE NULL
       IN  IF ~ok
           THEN /\ api' = ApiIdle
                /\ last' = Call("lazyCreateListingFee", "api", p,
                                "missing target_plugin_id in configuration", 0, 0)
           ELSE IF existing # NULL
           THEN /\ api' = ApiIdle
                /\ last' = Call("lazyCreateListingFee", "api", p, "", 0, existing[1].id)
           ELSE /\ api' = [api EXCEPT !.pc = "insert"]
                /\ last' = last
    /\ UNCHANGED <<listing_fees, plugin_policies, tx_indexer, feeConfig, now,
                   broadcasts, worker, syncer, queue, ctx>>

\* lazyCreateListingFee, lines 185-200: insert the pending fee.
ApiLazyInsert ==
    /\ api.pc = "insert"
    /\ LET p == api.policyID
           res == CreateListingFee(listing_fees,
                     PendingFee(p, PolicyConfiguration(p)["target_plugin_id"], feeConfig), now)
       IN  /\ listing_fees' = res.rows
           /\ IF res.err # ""
              THEN /\ api' = ApiIdle
                   /\ last' = Call("lazyCreateListingFee", "api", p,
                                   "failed to create listing fee", res.n, 0)
              ELSE /\ api' = [api EXCEPT !.pc = "readback"]
                   /\ last' = last
    /\ UNCHANGED <<plugin_policies, tx_indexer, feeConfig, now, broadcasts, worker, syncer,
                   queue, ctx>>

\* lazyCreateListingFee, lines 202-207: read the fee of the policy back.
ApiLazyReadback ==
    /\ api.pc = "readback"
    /\ LET p == api.policyID
           created == GetListingFeeByPolicyID(listing_fees, p)
       IN  last' = IF created = NULL
                   THEN Call("lazyCreateListingFee", "api", p, "failed to read listing fee", 0, 0)
                   ELSE Call("lazyCreateListingFee", "api", p, "", 0, created[1].id)
    /\ api' = ApiIdle
    /\ UNCHANGED <<listing_fees, plugin_policies, tx_indexer, feeConfig, now,
                   broadcasts, worker, syncer, queue, ctx>>

\* The query parameters of GET by scope that a client may send.
PublicKeys == {"pubkeyA", "pubkeyB"}
PluginIDs == {"plugin-1", "plugin-2"}

\* handleGetListingFeeByScope, lines 95-113.
ApiGetListingFeeByScope(publicKey, pluginID) ==
    /\ api.pc = "idle"
    /\ \E fee \in GetListingFeeByScope(listing_fees, publicKey, pluginID) :
         last' = IF fee = NULL
                 THEN Call("handleGetListingFeeByScope", "api", 0, "listing fee not found", 0, 0)
                 ELSE Call("handleGetListingFeeByScope", "api", fee[1].policy_id, "", 0, fee[1].id)
    /\ UNCHANGED <<listing_fees, plugin_policies, tx_indexer, feeConfig, now,
                   broadcasts, worker, syncer, api, queue, ctx>>

\* handleExecuteListingFee without the test of fee.Status.
ApiExecuteLoad_NoStatusCheck(p) ==
    /\ api.pc = "idle"
    /\ LET fee == GetListingFeeByPolicyID(listing_fees, p)
       IN  IF fee = NULL
           THEN /\ api' = ApiIdle
                /\ last' = Call("handleExecuteListingFee", "api", p, "listing fee not found", 0, 0)
           ELSE /\ Len(queue) < MaxQueue
                /\ api' = [pc |-> "enqueue", policyID |-> p]
                /\ last' = last
    /\ UNCHANGED <<listing_fees, plugin_policies, tx_indexer, feeConfig, now,
                   broadcasts, worker, syncer, queue, ctx>>

\* handleExecuteListingFee, lines 116-135: load the fee; 404 for none, 409 for
\* one that is not pending.
ApiExecuteLoad(p) ==
    /\ api.pc = "idle"
    /\ LET fee == GetListingFeeByPolicyID(listing_fees, p)
       IN  IF fee = NULL
           THEN /\ api' = ApiIdle
                /\ last' = Call("handleExecuteListingFee", "api", p, "listing fee not found", 0, 0)
           ELSE IF fee[1].status # "pending"
           THEN /\ api' = ApiIdle
                /\ last' = Call("handleExecuteListingFee", "api", p,
                                "listing fee is not in pending state", 0, fee[1].id)
           ELSE /\ Len(queue) < MaxQueue
                /\ api' = [pc |-> "enqueue", policyID |-> p]
                /\ last' = last
    /\ UNCHANGED <<listing_fees, plugin_policies, tx_indexer, feeConfig, now,
                   broadcasts, worker, syncer, queue, ctx>>

\* handleExecuteListingFee, lines 137-155: the task is enqueued (202), or
\* Enqueue returns an error (500).
ApiExecuteEnqueue ==
    /\ api.pc = "enqueue"
    /\ \/ /\ queue' = Append(queue, api.policyID)
          /\ last' = Call("handleExecuteListingFee", "api", api.policyID, "", 1, 0)
       \/ /\ queue' = queue
          /\ last' = Call("handleExecuteListingFee", "api", api.policyID,
                          "failed to enqueue task", 0, 0)
    /\ api' = ApiIdle
    /\ UNCHANGED <<listing_fees, plugin_policies, tx_indexer, feeConfig, now,
                   broadcasts, worker, syncer, ctx>>

(***************************************************************************)
(* The environment: the chain indexer and the operator.                    *)
(***************************************************************************)
\* The indexer polls the transactions it still tracks: those with no on-chain
\* result yet and not given up as lost.
Tracked(tx) == tx.status_onchain = "" /\ ~tx.lost

\* The indexer learns the on-chain result of a tracked transaction.
OracleResult(p, i, s) ==
    /\ i \in DOMAIN tx_indexer[p]
    /\ Tracked(tx_indexer[p][i])
    /\ tx_indexer' = [tx_indexer EXCEPT ![p][i].status_onchain = s]
    /\ UNCHANGED <<listing_fees, plugin_policies, feeConfig, now, broadcasts,
                   worker, syncer, api, last, queue, ctx>>

\* The indexer gives a tracked transaction up as lost (mark_lost_after).
OracleLost(p, i) ==
    /\ i \in DOMAIN tx_indexer[p]
    /\ Tracked(tx_indexer[p][i])
    /\ tx_indexer' = [tx_indexer EXCEPT ![p][i].lost = TRUE]
    /\ UNCHANGED <<listing_fees, plugin_policies, feeConfig, now, broadcasts,
                   worker, syncer, api, last, queue, ctx>>

\* The processes are redeployed with another fee configuration.
ChangeFeeConfig ==
    /\ \A w \in Workers : worker[w].pc = "idle"
    /\ api.pc = "idle"
    /\ \E c \in FeeConfigs \ {feeConfig} : feeConfig' = c
    /\ UNCHANGED <<listing_fees, plugin_policies, tx_indexer, now, broadcasts,
                   worker, syncer, api, last, queue, ctx>>

WorkerNext(w) ==
    \/ WorkerTick(w)
    \/ WorkerCreate(w)
    \/ WorkerExecuteQuery(w)
    \/ WorkerExecuteLoad(w)
    \/ WorkerBroadcast(w)
    \/ WorkerBroadcastFails(w)
    \/ WorkerMarkSubmitted(w)
    \/ WorkerMarkFailed(w)
    \/ WorkerSyncPaid(w)
    \/ WorkerSyncFailed(w)
    \/ WorkerSyncFails(w)
    \/ WorkerDeactivateQuery(w)
    \/ WorkerDeactivate(w)
    \/ WorkerCycleDone(w)
    \/ WorkerCrash(w)

SyncerNext == SyncerTick \/ SyncerStep \/ SyncerDone

ApiNext ==
    \/ \E p \in Policies : ApiGetListingFee(p)
    \/ ApiLazyLookup
    \/ ApiLazyInsert
    \/ ApiLazyReadback

OracleNext ==
    \/ \E p \in Policies, i \in 1..MaxBroadcasts, s \in {"SUCCESS", "FAIL"} : OracleResult(p, i, s)
    \/ \E p \in Policies, i \in 1..MaxBroadcasts : OracleLost(p, i)

\* The other two routes of the API: the fee of a scope, and the request to
\* execute a fee.
ApiRequestNext ==
    \/ \E pk \in PublicKeys, plugin \in PluginIDs : ApiGetListingFeeByScope(pk, plugin)
    \/ \E p \in Policies : ApiExecuteLoad(p)
    \/ ApiExecuteEnqueue

\* One deployment: a worker, the tx syncer, the API server and the indexer.
Next == WorkerNext("w1") \/ SyncerNext \/ ApiNext \/ OracleNext

Spec == Init /\ [][Next]_vars

\* Two worker processes on the same database, and the indexer.
NextWorkers == (\E w \in Workers : WorkerNext(w)) \/ OracleNext

SpecWorkers == Init /\ [][NextWorkers]_vars

\* The tx syncer as the settlement pass that is sure to run: its ticker loop
\* (TxSyncer.Run) keeps calling sync, while nothing obliges the worker process
\* to be up.
NextSyncer == WorkerNext("w1") \/ SyncerNext \/ OracleNext

SpecSyncer == Init /\ [][NextSyncer]_vars /\ WF_vars(SyncerNext)

\* The API server answering those two routes, a worker and the indexer.
NextApi == WorkerNext("w1") \/ ApiRequestNext \/ OracleNext

SpecApi == Init /\ [][NextApi]_vars

(***************************************************************************)
(* Shutdown: the signal handler cancels the context that Consumer.Run and  *)
(* TxSyncer.Run select on and that every store call of a cycle is given.   *)
(***************************************************************************)
\* The loop of process x is blocked in its select, or about to evaluate it.
InSelect(x) == IF x = "syncer" THEN syncer.pc = "idle" ELSE worker[x].pc = "idle"

\* SIGINT or SIGTERM arrives and cancel() closes ctx.Done().  A loop blocked
\* in its select is woken by Done and returns; a cycle in flight goes on
\* with the cancelled context.
Shutdown(x) ==
    /\ ctx[x] = "live"
    /\ ctx' = [ctx EXCEPT ![x] = "cancelled"]
    /\ IF x = "syncer"
       THEN /\ syncer' = IF InSelect(x) THEN [syncer EXCEPT !.pc = "stopped"] ELSE syncer
            /\ worker' = worker
       ELSE /\ worker' = IF InSelect(x) THEN [worker EXCEPT ![x].pc = "stopped"] ELSE worker
            /\ syncer' = syncer
    /\ UNCHANGED <<listing_fees, plugin_policies, tx_indexer, feeConfig, now,
                   broadcasts, api, last, queue>>

\* The rest of a cycle under the cancelled context: every store and RPC call
\* returns the context's error, nothing is written, and process returns to
\* the select of Run.
WorkerCancelled(w) ==
    /\ ctx[w] = "cancelled"
    /\ worker[w].pc \notin {"idle", "stopped"}
    /\ worker' = [worker EXCEPT ![w] = WorkerIdle]
    /\ UNCHANGED <<listing_fees, plugin_policies, tx_indexer, feeConfig, now,
                   broadcasts, syncer, api, last, queue, ctx>>

\* The same for sync.
SyncerCancelled ==
    /\ ctx["syncer"] = "cancelled"
    /\ syncer.pc \notin {"idle", "stopped"}
    /\ syncer' = SyncerIdle
    /\ UNCHANGED <<listing_fees, plugin_policies, tx_indexer, feeConfig, now,
                   broadcasts, worker, api, last, queue, ctx>>

\* Consumer.Run, lines 64-72: the select after a cycle takes <-ctx.Done() and
\* Run returns.
WorkerStop(w) ==
    /\ ctx[w] = "cancelled"
    /\ worker[w].pc = "idle"
    /\ worker' = [worker EXCEPT ![w].pc = "stopped"]
    /\ UNCHANGED <<listing_fees, plugin_policies, tx_indexer, feeConfig, now,
                   broadcasts, syncer, api, last, queue, ctx>>

\* TxSyncer.Run, lines 39-47: the same.
SyncerStop ==
    /\ ctx["syncer"] = "cancelled"
    /\ syncer.pc = "idle"
    /\ syncer' = [syncer EXCEPT !.pc = "stopped"]
    /\ UNCHANGED <<listing_fees, plugin_policies, tx_indexer, feeConfig, now,
                   broadcasts, worker, api, last, queue, ctx>>

\* Consumer.Run under its context.  When the cycle in flight returns with the
\* context cancelled and a tick waiting in ticker.C (the cycle outlasted the
\* interval), both cases of the select can proceed and Go takes either.
RunWorker(w) ==
    \/ ctx[w] = "live" /\ WorkerNext(w)
    \/ ctx[w] = "cancelled" /\ WorkerTick(w)
    \/ WorkerCancelled(w)
    \/ WorkerStop(w)

\* TxSyncer.Run under its context.
RunSyncer ==
    \/ ctx["syncer"] = "live" /\ SyncerNext
    \/ ctx["syncer"] = "cancelled" /\ SyncerTick
    \/ SyncerCancelled
    \/ SyncerStop

\* A worker process and the syncer process, each shut down at some moment.
NextShutdown ==
    \/ RunWorker("w1")
    \/ RunSyncer
    \/ OracleNext
    \/ \E x \in {"w1", "syncer"} : Shutdown(x)

SpecShutdown == Init /\ [][NextShutdown]_vars

(***************************************************************************)
(* The store failing under the executor.                                   *)
(***************************************************************************)
\* execute, lines 227-230: MarkAsSubmitted returns an error (the store is
\* unavailable, the statement times out); nothing is written.
WorkerMarkSubmittedFails(w) ==
    /\ worker[w].pc = "sent"
    /\ worker' = [worker EXCEPT ![w] =
           [@ EXCEPT !.pc = "exec_failed", !.fee = NULL, !.txHash = NULL,
                     !.err = "failed to mark as submitted"]]
    /\ UNCHANGED <<listing_fees, plugin_policies, tx_indexer, feeConfig, now,
                   broadcasts, syncer, api, last, queue, ctx>>

\* executePendingFees, lines 184-187: MarkAsFailed returns an error too; it is
\* logged and the loop goes on.
WorkerMarkFailedFails(w) ==
    /\ worker[w].pc = "exec_failed"
    /\ worker' = [worker EXCEPT ![w] = [@ EXCEPT !.pc = "execute", !.policyID = 0, !.err = ""]]
    /\ UNCHANGED <<listing_fees, plugin_policies, tx_indexer, feeConfig, now,
                   broadcasts, syncer, api, last, queue, ctx>>

\* A worker whose store calls after the broadcast can fail, and the indexer.
NextOutage ==
    \/ WorkerNext("w1")
    \/ WorkerMarkSubmittedFails("w1")
    \/ WorkerMarkFailedFails("w1")
    \/ OracleNext

SpecOutage == Init /\ [][NextOutage]_vars

(***************************************************************************)
(* The failure-free run: no call of the worker returns an error, the       *)
(* process is not killed, every broadcast gets a hash of its own and the   *)
(* indexer reports every transfer successful.                              *)
(***************************************************************************)
WorkerBroadcastFresh(w) ==
    /\ WorkerBroadcast(w)
    /\ worker'[w].txHash[1] \notin SentHashes(broadcasts)

LifecycleWorker(w) ==
    \/ WorkerTick(w)
    \/ WorkerCreate(w)
    \/ WorkerExecuteQuery(w)
    \/ WorkerExecuteLoad(w)
    \/ WorkerBroadcastFresh(w)
    \/ WorkerMarkSubmitted(w)
    \/ WorkerSyncPaid(w)
    \/ WorkerSyncFailed(w)
    \/ WorkerDeactivateQuery(w)
    \/ WorkerDeactivate(w)
    \/ WorkerCycleDone(w)

OracleSuccess == \E p \in Policies, i \in 1..MaxBroadcasts : OracleResult(p, i, "SUCCESS")

NextLifecycle == LifecycleWorker("w1") \/ OracleSuccess

\* The ticker of Run keeps the worker cycling and each call of a cycle
\* returns; the indexer reports each transfer it tracks.
SpecLifecycle ==
    /\ Init /\ [][NextLifecycle]_vars
    /\ WF_vars(LifecycleWorker("w1"))
    /\ WF_vars(OracleSuccess)

\* A worker that is restarted with another fee configuration now and then.
NextConfig == WorkerNext("w1") \/ OracleNext \/ ChangeFeeConfig

SpecConfig == Init /\ [][NextConfig]_vars

(***************************************************************************)
(* The store on its own: every statement of internal/db, issued at any     *)
(* moment for any policy and any argument.  Whatever the processes do to   *)
(* the tables, in whatever interleaving, is a sequence of these            *)
(* statements, so an invariant of the tables under SpecStore is one under  *)
(* every schedule of workers, syncers and API requests.                    *)
(***************************************************************************)
FailureReasons ==
    { "failed to sign and broadcast", "transaction failed on-chain", "transaction lost" }

\* What tx_indexer may hold for the fees when a bulk statement joins it.
IndexerRows ==
    { [status_onchain |-> "SUCCESS", lost |-> FALSE], [status_onchain |-> "FAIL", lost |-> FALSE],
      [status_onchain |-> "", lost |-> TRUE], [status_onchain |-> "SUCCESS", lost |-> TRUE] }
\* The joins read tx_indexer only through submitted fees, so only their rows vary.
IndexerTables(rows) ==
    { ti \in [Policies -> {<<>>} \cup {<<tx>> : tx \in IndexerRows}] :
        \A p \in Policies :
            ti[p] # <<>> => \E r \in rows : r.policy_id = p /\ r.status = "submitted" }

StoreUnchanged ==
    UNCHANGED <<plugin_policies, tx_indexer, feeConfig, now, broadcasts, worker, syncer, api, last,
                   queue, ctx>>

StoreCreateListingFee(p) ==
    /\ listing_fees' = (CreateListingFee(listing_fees,
                     PendingFee(p, PolicyConfiguration(p)["targetPluginId"], feeConfig), now)).rows
    /\ StoreUnchanged

StoreMarkAsSubmitted(p, h) ==
    /\ listing_fees' = (MarkAsSubmitted(listing_fees, p, h, now)).rows
    /\ StoreUnchanged

StoreMarkAsPaid(p) ==
    /\ listing_fees' = (MarkAsPaid(listing_fees, p, 0, 1, now)).rows
    /\ StoreUnchanged

StoreMarkAsFailed(p, reason) ==
    /\ listing_fees' = (MarkAsFailed(listing_fees, p, reason, now)).rows
    /\ StoreUnchanged

StoreUpdateConfirmations(p, c) ==
    /\ listing_fees' = (UpdateConfirmations(listing_fees, p, c, now)).rows
    /\ StoreUnchanged

StoreSyncPaidFees(ti) ==
    /\ listing_fees' = (SyncPaidFees(listing_fees, ti, now)).rows
    /\ StoreUnchanged

StoreSyncFailedFees(ti) ==
    /\ listing_fees' = (SyncFailedFees(listing_fees, ti, [p \in Policies |-> 1], now)).rows
    /\ StoreUnchanged

\* CURRENT_TIMESTAMP moves on.
Tick ==
    /\ now < MaxTime
    /\ now' = now + 1
    /\ UNCHANGED <<listing_fees, plugin_policies, tx_indexer, feeConfig, broadcasts, worker, syncer, api, last,
                   queue, ctx>>

StoreNext ==
    \/ \E p \in Policies : StoreCreateListingFee(p)
    \/ \E p \in Policies, h \in TxHashes : StoreMarkAsSubmitted(p, h)
    \/ \E p \in Policies : StoreMarkAsPaid(p)
    \/ \E p \in Policies, reason \in FailureReasons : StoreMarkAsFailed(p, reason)
    \/ \E p \in Policies, c \in {0, 1} : StoreUpdateConfirmations(p, c)
    \/ \E ti \in IndexerTables(listing_fees) : StoreSyncPaidFees(ti)
    \/ \E ti \in IndexerTables(listing_fees) : StoreSyncFailedFees(ti)
    \/ ChangeFeeConfig

SpecStore == Init /\ [][StoreNext]_vars

SpecClock == Init /\ [][StoreNext \/ Tick]_vars

(***************************************************************************)
(* Properties.                                                             *)
(***************************************************************************)
RowOf(rows, policyID) == CHOOSE r \in rows : r.policy_id = policyID
HasRow(rows, policyID) == \E r \in rows : r.policy_id = policyID
RowScope(r) == Scope(r.public_key, r.target_plugin_id)
PendingOfScope(rows, s) == {r \in rows : RowScope(r) = s /\ r.status = "pending"}

\* C1: at every moment, whatever the order in which creators (the API's lazy
\* creation, the worker's discovery pass) reach the store, a scope
\* (public_key, target_plugin_id) has at most one listing fee in status pending.
C1_OnePendingPerScope ==
    \A s \in Scopes : Cardinality(PendingOfScope(listing_fees, s)) <= 1

\* A scope with a pending fee next to an older fee of another policy: a second
\* creation in the scope went through once the first fee had left pending.
C1_Witness ==
    \E r1, r2 \in listing_fees :
        /\ r1.policy_id # r2.policy_id
        /\ RowScope(r1) = RowScope(r2)
        /\ r1.status # "pending"
        /\ r2.status = "pending"
        /\ r2.id > r1.id

\* C2: two executions of the same pending fee running at once send one
\* transfer: no two workers stand past SignAndBroadcast for the same fee.
C2_SecondExecuteDoesNotBroadcast ==
    \A w, v \in Workers :
        (w # v /\ worker[w].pc = "sent" /\ worker[v].pc = "sent")
            => worker[w].policyID # worker[v].policyID

\* C3: whatever fails between SignAndBroadcast and MarkAsSubmitted (a crash, a
\* timeout, a repeated delivery), a fee has at most one transfer ever broadcast.
C3_AtMostOneBroadcast ==
    \A p \in Policies : BroadcastCount(p) <= 1

AllowedTransitions ==
    { <<"pending", "submitted">>, <<"pending", "failed">>,
      <<"submitted", "paid">>, <<"submitted", "failed">> }

\* C4: every change of a fee's status is pending -> submitted, pending -> failed,
\* submitted -> paid or submitted -> failed; a paid or failed fee keeps its
\* status, and no fee returns to pending.
C4_StatusTransitions ==
    [][\A r \in listing_fees :
          /\ HasRow(listing_fees', r.policy_id)
          /\ LET r2 == RowOf(listing_fees', r.policy_id)
             IN  r2.status # r.status => <<r.status, r2.status>> \in AllowedTransitions]_vars

\* Every status has been reached: one fee is paid and one has failed after it
\* was submitted.
C4_Witness ==
    \E r1, r2 \in listing_fees :
        /\ r1.status = "paid"
        /\ r2.status = "failed"
        /\ r2.tx_hash # NULL

\* C5: of two MarkAsSubmitted calls on the same pending fee one takes effect;
\* a call that finds the fee no longer pending changes nothing and raises no
\* error, and the fee keeps the tx_hash and submitted_at it was given.
C5_SecondMarkAsSubmitted ==
    /\ [](\A r \in listing_fees : \A h \in TxHashes :
              r.status # "pending"
                  => MarkAsSubmitted(listing_fees, r.policy_id, h, now)
                         = Result(listing_fees, 0, ""))
    /\ [][\A r \in listing_fees :
              r.tx_hash # NULL
                  => /\ HasRow(listing_fees', r.policy_id)
                     /\ RowOf(listing_fees', r.policy_id).tx_hash = r.tx_hash
                     /\ RowOf(listing_fees', r.policy_id).submitted_at = r.submitted_at]_vars

\* A fee submitted at time 0 that is still submitted, untouched, at time 1,
\* when a second call would stamp another submitted_at.
C5_Witness ==
    /\ now = 1
    /\ \E r \in listing_fees :
          /\ r.status = "submitted"
          /\ r.submitted_at = Some(0)
          /\ r.updated_at = 0

\* C6: a creation for a scope that already has a pending fee raises no error:
\* no policy the discovery pass is about to create for gets one from the store.
C6_CreateNeverErrors ==
    \A w \in Workers :
        worker[w].pc = "create"
            => \A p \in worker[w].batch :
                  CreateListingFee(listing_fees,
                      PendingFee(p, PolicyConfiguration(p)["targetPluginId"], feeConfig),
                      now).err = ""

\* C7: a pending fee is created only when no fee of its scope is pending,
\* submitted or paid.
C7_NoCreationNextToActiveFee ==
    [][\A r2 \in listing_fees' :
          ~HasRow(listing_fees, r2.policy_id)
              => ~HasActiveListingFee(listing_fees, r2.public_key, r2.target_plugin_id)]_vars

\* C8: once a fee of a scope is paid, no transfer is broadcast for another fee
\* of that scope.
C8_NoBroadcastAfterPaid ==
    [][\A p \in Policies :
          Len(broadcasts'[p]) > Len(broadcasts[p])
              => ~\E r \in listing_fees : /\ r.status = "paid"
                                          /\ r.policy_id # p
                                          /\ RowScope(r) = PolicyScope(p)]_vars

\* C9: no two fees carry the same non-null tx_hash, and a MarkAsSubmitted whose
\* hash another fee carries is rejected and leaves the table as it was.
C9_UniqueTxHash ==
    /\ \A r1, r2 \in listing_fees :
          (r1.tx_hash # NULL /\ r1.tx_hash = r2.tx_hash) => r1.policy_id = r2.policy_id
    /\ \A r1, r2 \in listing_fees :
          (r1.policy_id # r2.policy_id /\ r1.tx_hash # NULL /\ r2.status = "pending")
              => LET res == MarkAsSubmitted(listing_fees, r2.policy_id, r1.tx_hash[1], now)
                 IN  res.err # "" /\ res.rows = listing_fees

\* Two fees carry hashes: the second was submitted while the first held its own.
C9_Witness ==
    \E r1, r2 \in listing_fees :
        /\ r1.policy_id # r2.policy_id
        /\ r1.tx_hash # NULL
        /\ r2.tx_hash # NULL
        /\ r2.status = "submitted"

\* C10: a fee's amount and destination are those of the configuration at its
\* creation, and no later statement (a status update, a settlement pass, a
\* confirmation update, a repeated creation) changes them, whatever the
\* configuration becomes.
C10_AmountAndDestinationFrozen ==
    [][\A r2 \in listing_fees' :
          IF HasRow(listing_fees, r2.policy_id)
          THEN /\ r2.amount = RowOf(listing_fees, r2.policy_id).amount
               /\ r2.destination = RowOf(listing_fees, r2.policy_id).destination
          ELSE /\ r2.amount = SetString10(feeConfig.FeeAmount)
               /\ r2.destination = feeConfig.TreasuryAddress]_vars

\* A fee that went through a status update and whose amount and destination
\* are not those of the configuration now in force.
C10_Witness ==
    \E r \in listing_fees :
        /\ r.status # "pending"
        /\ r.amount # SetString10(feeConfig.FeeAmount)
        /\ r.destination # feeConfig.TreasuryAddress

\* C11: a fee, once created, is never deleted and keeps its id, policy_id and
\* scope: whatever statements follow, the set of ids only grows.
C11_NeverDeleted ==
    [][\A r \in listing_fees :
          \E r2 \in listing_fees' :
              /\ r2.id = r.id
              /\ r2.policy_id = r.policy_id
              /\ r2.public_key = r.public_key
              /\ r2.target_plugin_id = r.target_plugin_id]_vars

\* Both fees are still there after each reached an end of its life.
C11_Witness ==
    /\ Cardinality(listing_fees) = NumPolicies
    /\ \A r \in listing_fees : r.status \in {"paid", "failed"}
    /\ {r.id : r \in listing_fees} = 1..NumPolicies

\* C12: execute on a fee whose stored status is not pending returns the
\* not-pending error and sends nothing: a worker builds and broadcasts only for
\* a fee it loaded as pending.
C12_NotPendingAborts ==
    /\ [](\A w \in Workers :
              worker[w].pc \in {"loaded", "sent"}
                  => worker[w].fee # NULL /\ worker[w].fee[1].status = "pending")
    /\ [][\A w \in Workers :
              (/\ worker[w].pc = "execute"
               /\ worker'[w].pc \in {"loaded", "exec_failed"}
               /\ HasRow(listing_fees, worker'[w].policyID)
               /\ RowOf(listing_fees, worker'[w].policyID).status # "pending")
                  => /\ worker'[w].pc = "exec_failed"
                     /\ worker'[w].err = "listing fee is not in pending state"
                     /\ broadcasts' = broadcasts
                     /\ tx_indexer' = tx_indexer]_vars

\* A worker came to a fee that the other worker had submitted meanwhile and
\* got the not-pending error.
C12_Witness ==
    \E w \in Workers :
        /\ worker[w].pc = "exec_failed"
        /\ worker[w].err = "listing fee is not in pending state"
        /\ HasRow(listing_fees, worker[w].policyID)
        /\ RowOf(listing_fees, worker[w].policyID).status = "submitted"

\* C13: the executor's failure handling only moves a fee from pending to
\* failed: a fee that is submitted when execute has returned its error stays
\* submitted, with its tx_hash.
C13_ExecutorFailsOnlyPending ==
    [][\A w \in Workers :
          (worker[w].pc = "exec_failed" /\ worker'[w].pc = "execute")
              => \A r \in listing_fees :
                    r.status = "submitted"
                        => /\ RowOf(listing_fees', r.policy_id).status = "submitted"
                           /\ RowOf(listing_fees', r.policy_id).tx_hash = r.tx_hash]_vars

\* The configuration a fee was created under: the one whose treasury is the
\* fee's destination.
ConfigAtCreation(r) == CHOOSE c \in FeeConfigs : c.TreasuryAddress = r.destination

\* C15: every transfer broadcast for a fee pays the amount, to the destination
\* and in the asset fixed when the fee was created, whatever the configuration
\* has become since.
C15_TransferAgreesWithRecord ==
    \A p \in Policies : \A i \in DOMAIN broadcasts[p] :
        /\ HasRow(listing_fees, p)
        /\ broadcasts[p][i].amount = RowOf(listing_fees, p).amount
        /\ broadcasts[p][i].to = RowOf(listing_fees, p).destination
        /\ broadcasts[p][i].token = ConfigAtCreation(RowOf(listing_fees, p)).VultTokenAddress

\* C20: a failure on one record does not keep the rest of the batch from being
\* processed in the same pass; when the worker's settlement pass ends, no
\* submitted fee is left whose transaction the indexer reports failed or lost.
C20_SettlementPassCompletes ==
    [][\A w \in Workers :
          (worker[w].pc # "sync_done" /\ worker'[w].pc = "sync_done")
              => \A r \in listing_fees' :
                    ~(r.status = "submitted" /\ FailedJoin(tx_indexer', r) # {})]_vars

\* Every submitted fee carries the hash of a transfer broadcast for its policy.
SubmittedHashWasBroadcast ==
    \A r \in listing_fees :
        r.status = "submitted"
            => \E i \in DOMAIN broadcasts[r.policy_id] :
                  r.tx_hash = Some(broadcasts[r.policy_id][i].tx_hash)

\* The write that follows a broadcast of worker w: MarkAsSubmitted has returned.
WriteAfterBroadcast(w) ==
    /\ worker[w].pc = "sent"
    /\ worker'[w].pc \in {"execute", "exec_failed"}
    /\ HasRow(listing_fees, worker[w].policyID)
    /\ RowOf(listing_fees, worker[w].policyID).status = "pending"

\* C14 as stated: after a successful broadcast for a fee that is still pending
\* at the write, the fee is submitted with the hash of that broadcast; and every
\* submitted fee carries the hash of a broadcast made for it.
C14_SubmittedWithBroadcastHash ==
    /\ []SubmittedHashWasBroadcast
    /\ [][\A w \in Workers :
              WriteAfterBroadcast(w)
                  => /\ RowOf(listing_fees', worker[w].policyID).status = "submitted"
                     /\ RowOf(listing_fees', worker[w].policyID).tx_hash = worker[w].txHash]_vars

\* C14 amended: the same, for a broadcast whose hash no other fee carries; a
\* write whose hash another fee carries is rejected and the fee stays pending
\* for the executor's failure handling.
C14_Amended ==
    /\ []SubmittedHashWasBroadcast
    /\ [][\A w \in Workers :
              WriteAfterBroadcast(w)
                  => IF TxHashConflict(listing_fees, worker[w].policyID, worker[w].txHash[1])
                     THEN /\ listing_fees' = listing_fees
                          /\ worker'[w].pc = "exec_failed"
                     ELSE /\ RowOf(listing_fees', worker[w].policyID).status = "submitted"
                          /\ RowOf(listing_fees', worker[w].policyID).tx_hash
                                 = worker[w].txHash]_vars

\* A fee submitted with the hash of its own broadcast, next to a fee that
\* carries another hash.
C14_Witness ==
    \E r1, r2 \in listing_fees :
        /\ r1.policy_id # r2.policy_id
        /\ r1.status = "submitted"
        /\ BroadcastCount(r1.policy_id) = 1
        /\ r1.tx_hash = Some(broadcasts[r1.policy_id][1].tx_hash)
        /\ r2.tx_hash # NULL
        /\ r2.tx_hash # r1.tx_hash

\* C16: a fee becomes paid only in a settlement pass (the worker's paid update
\* or a step of TxSyncer.sync), only from submitted, only while tx_indexer
\* holds SUCCESS for the fee's policy, and the write sets paid_at; no fee is
\* created paid.
C16_PaidOnlyBySettlement ==
    [][\A r2 \in listing_fees' :
          r2.status = "paid"
              => /\ HasRow(listing_fees, r2.policy_id)
                 /\ LET r == RowOf(listing_fees, r2.policy_id)
                    IN  r.status # "paid"
                            => /\ r.status = "submitted"
                               /\ \E i \in DOMAIN tx_indexer[r.policy_id] :
                                     tx_indexer[r.policy_id][i].status_onchain = "SUCCESS"
                               /\ r2.paid_at # NULL
                               /\ \/ \E w \in Workers : WorkerSyncPaid(w)
                                  \/ SyncerStep]_vars

\* A fee is paid, with paid_at set, and the indexer holds SUCCESS for it.
C16_Witness ==
    \E r \in listing_fees :
        /\ r.status = "paid"
        /\ r.paid_at # NULL
        /\ r.tx_hash # NULL
        /\ \E i \in DOMAIN tx_indexer[r.policy_id] :
              tx_indexer[r.policy_id][i].status_onchain = "SUCCESS"

\* C17: when the indexer reports the transaction of a submitted fee lost, with
\* any on-chain result but success, a settlement pass moves the fee to failed
\* with the reason 'transaction lost'; so does the step of TxSyncer.sync that
\* handles the fee.
C17_LostIsFailedAsLost ==
    [][\A p \in Policies :
          (/\ syncer.pc = "sync" /\ syncer'.pc = "sync"
           /\ p \in syncer.batch /\ p \notin syncer'.batch
           /\ HasRow(listing_fees, p)
           /\ RowOf(listing_fees, p).status = "submitted"
           /\ GetByPolicyID(tx_indexer, p) # <<>>
           /\ GetByPolicyID(tx_indexer, p)[1].lost
           /\ GetByPolicyID(tx_indexer, p)[1].status_onchain # "SUCCESS")
              => /\ RowOf(listing_fees', p).status = "failed"
                 /\ RowOf(listing_fees', p).failure_reason = Some("transaction lost")]_vars

\* C18: a fee that is submitted while the indexer reports on-chain success for
\* it becomes paid: it leaves submitted for paid only (failed is final, so a
\* fee that goes there is never paid).
C18_SuccessLeadsToPaid ==
    [][\A r \in listing_fees :
          (/\ r.status = "submitted"
           /\ \E i \in DOMAIN tx_indexer[r.policy_id] :
                 tx_indexer[r.policy_id][i].status_onchain = "SUCCESS")
              => RowOf(listing_fees', r.policy_id).status \in {"submitted", "paid"}]_vars

PaidPolicies(rows) == {r.policy_id : r \in {x \in rows : x.status = "paid"}}
Completed == [active |-> FALSE, deactivation_reason |-> Some("completed")]

\* C21: a deactivation pass that runs to its end leaves every policy that was
\* active with a paid fee when the pass read its list inactive with reason
\* 'completed': the list the pass reads is exactly those policies, every
\* policy the pass takes off its list is inactive with reason 'completed'
\* right after, and a policy in that state stays in it, so at the end of the
\* pass (the list empty) all of them are.
C21_DeactivationPassCompletes ==
    [][\A w \in Workers :
         /\ (worker[w].pc = "sync_done" /\ worker'[w].pc = "deactivate") =>
                worker'[w].batch =
                    {p \in PaidPolicies(listing_fees) : plugin_policies[p].active}
         /\ (worker[w].pc = "deactivate" /\ worker'[w].pc = "deactivate") =>
                \A p \in worker[w].batch \ worker'[w].batch :
                    plugin_policies'[p] = Completed
         /\ (worker[w].pc = "deactivate" /\ worker'[w].pc = "deactivate") =>
                worker'[w].batch \subseteq worker[w].batch
         /\ \A p \in Policies :
                plugin_policies[p] = Completed => plugin_policies'[p] = Completed
      ]_vars

\* A pass at its end that deactivated a policy with a paid fee.
C21_Witness ==
    \E w \in Workers :
        /\ worker[w].pc = "deactivate"
        /\ worker[w].batch = {}
        /\ \E p \in PaidPolicies(listing_fees) : plugin_policies[p] = Completed

\* The reason argument of DeactivatePolicy is any string; the worker passes
\* 'completed'.
DeactivationReasons == {"completed", "revoked"}

\* C22: DeactivatePolicy on an inactive policy changes nothing, whatever the
\* reason it is called with (active stays false, the recorded reason is
\* kept), and no step of any worker, overlapping passes included, changes the
\* row of an inactive policy.
C22_DeactivateInactiveIsNoOp ==
    /\ [](\A p \in Policies : ~plugin_policies[p].active =>
            \A reason \in DeactivationReasons :
                DeactivatePolicy(plugin_policies, p, reason) = plugin_policies)
    /\ [][\A p \in Policies : ~plugin_policies[p].active =>
             plugin_policies'[p] = plugin_policies[p]]_vars

\* A worker about to call DeactivatePolicy for a policy that another pass has
\* deactivated already.
C22_Witness ==
    \E w \in Workers : \E p \in worker[w].batch :
        /\ worker[w].pc = "deactivate"
        /\ ~plugin_policies[p].active
        /\ plugin_policies[p].deactivation_reason = Some("completed")

\* C23: an inactive policy was deactivated with reason 'completed' and has a
\* paid fee record; so no policy whose fee is pending, submitted or failed, or
\* that has no fee, is inactive.
C23_InactiveOnlyWhenPaid ==
    \A p \in Policies :
        ~plugin_policies[p].active =>
            /\ plugin_policies[p].deactivation_reason = Some("completed")
            /\ p \in PaidPolicies(listing_fees)

\* A policy deactivated while another policy has a fee that is not paid.
C23_Witness ==
    /\ \E p \in Policies : ~plugin_policies[p].active
    /\ \E r \in listing_fees : r.status # "paid" /\ plugin_policies[r.policy_id].active

\* C24: in a cycle of a worker the deactivation pass runs after the
\* settlement pass: the list of policies to deactivate is read only when the
\* settlement pass is over, it holds every active policy whose fee the
\* settlement passes have moved to paid, and when the cycle ends all of them
\* are inactive with reason 'completed'.
C24_DeactivationAfterSettlement ==
    /\ [](\A w \in Workers : worker[w].pc = "deactivate" =>
            \A p \in PaidPolicies(listing_fees) :
                plugin_policies[p].active => p \in worker[w].batch)
    /\ [][\A w \in Workers :
             /\ (worker[w].pc # "deactivate" /\ worker'[w].pc = "deactivate") =>
                    worker[w].pc = "sync_done"
             /\ (worker[w].pc # "sync_done" /\ worker'[w].pc = "sync_done") =>
                    worker[w].pc \in {"execute", "sync_failed"}
             /\ (worker[w].pc = "deactivate" /\ worker[w].batch = {}
                   /\ worker'[w].pc = "idle") =>
                    \A p \in PaidPolicies(listing_fees) : plugin_policies[p] = Completed
       ]_vars

\* The deactivation pass of a cycle has read its list, and a policy whose fee
\* is paid is on it.
C24_Witness ==
    \E w \in Workers :
        /\ worker[w].pc = "deactivate"
        /\ \E p \in worker[w].batch :
               p \in PaidPolicies(listing_fees) /\ plugin_policies[p].active

(***************************************************************************)
(* The API routes.                                                         *)
(***************************************************************************)
\* C25: a request to execute a fee answers 'listing fee not found' exactly
\* when the policy has no record and 'listing fee is not in pending state'
\* exactly when the record it read is not pending, and then enqueues nothing;
\* it goes on to enqueue only for a record it read as pending; and the
\* request, whatever its answer, sends no transfer and writes no table: the
\* only thing it can change is the queue, by the one task of its policy.
C25_ExecuteRequestOnlyEnqueues ==
    [][/\ \A p \in Policies :
            (/\ api.pc = "idle" /\ api'.pc = "idle" /\ last' # last
             /\ last'.op = "handleExecuteListingFee" /\ last'.policyID = p) =>
                /\ last'.err = IF HasRow(listing_fees, p)
                               THEN "listing fee is not in pending state"
                               ELSE "listing fee not found"
                /\ HasRow(listing_fees, p) => RowOf(listing_fees, p).status # "pending"
                /\ queue' = queue
       /\ (api.pc = "idle" /\ api'.pc = "enqueue") =>
            /\ HasRow(listing_fees, api'.policyID)
            /\ RowOf(listing_fees, api'.policyID).status = "pending"
            /\ queue' = queue
       /\ (api.pc = "enqueue" /\ api'.pc = "idle") =>
            /\ last'.op = "handleExecuteListingFee"
            /\ \/ last'.err = "" /\ queue' = Append(queue, api.policyID)
               \/ last'.err = "failed to enqueue task" /\ queue' = queue
       /\ queue' # queue => api.pc = "enqueue"
       /\ api' # api =>
            /\ listing_fees' = listing_fees
            /\ plugin_policies' = plugin_policies
            /\ tx_indexer' = tx_indexer
            /\ broadcasts' = broadcasts
      ]_vars

\* A task was enqueued for a fee that is still pending and has had no
\* transfer sent, and a later request for another fee was refused as not
\* pending.
C25_Witness ==
    /\ queue # <<>>
    /\ HasRow(listing_fees, queue[1])
    /\ RowOf(listing_fees, queue[1]).status = "pending"
    /\ BroadcastCount(queue[1]) = 0
    /\ last.op = "handleExecuteListingFee"
    /\ last.err = "listing fee is not in pending state"

ScopeRows(rows, publicKey, pluginID) ==
    {r \in rows : r.public_key = publicKey /\ r.target_plugin_id = pluginID}

\* C26: the lookups by policy id and by scope answer from the table as it is:
\* NULL (no record, no error) when the policy or the scope has no record, a
\* record of that policy or scope otherwise; and the requests answered from
\* a lookup alone (the fee of a scope: found or 'listing fee not found'; a
\* refused execute request) leave every table as it was.
C26_LookupsReadOnly ==
    /\ [](\A p \in Policies :
            IF HasRow(listing_fees, p)
            THEN GetListingFeeByPolicyID(listing_fees, p) = Some(RowOf(listing_fees, p))
            ELSE GetListingFeeByPolicyID(listing_fees, p) = NULL)
    /\ [](\A pk \in PublicKeys, plugin \in PluginIDs :
            IF ScopeRows(listing_fees, pk, plugin) = {}
            THEN GetListingFeeByScope(listing_fees, pk, plugin) = {NULL}
            ELSE \A fee \in GetListingFeeByScope(listing_fees, pk, plugin) :
                    fee # NULL /\ fee[1] \in ScopeRows(listing_fees, pk, plugin))
    /\ [][(/\ last' # last
            /\ last'.op \in {"handleGetListingFeeByScope", "handleExecuteListingFee"}) =>
              /\ listing_fees' = listing_fees
              /\ plugin_policies' = plugin_policies
              /\ tx_indexer' = tx_indexer
              /\ last'.op = "handleGetListingFeeByScope" =>
                    last'.err \in {"", "listing fee not found"}
          ]_vars

\* The table holds records, and the fee of a scope that has none was asked
\* for and answered 'listing fee not found'.
C26_Witness ==
    /\ listing_fees # {}
    /\ last.op = "handleGetListingFeeByScope"
    /\ last.err = "listing fee not found"

(***************************************************************************)
(* Shutdown.                                                               *)
(***************************************************************************)
\* C27: once the context of a polling loop is cancelled, the loop starts no
\* further cycle: no step takes the worker from the select of Run into
\* process, nor the syncer from its select into sync, while its context is
\* cancelled.
C27_NoCycleAfterShutdown ==
    [][/\ \A w \in Workers :
            ctx[w] = "cancelled" =>
                ~(worker[w].pc = "idle" /\ worker'[w].pc = "create")
       /\ ctx["syncer"] = "cancelled" =>
            ~(syncer.pc = "idle" /\ syncer'.pc = "sync")
      ]_vars

(***************************************************************************)
(* Failures of the executor, and the whole lifecycle.                      *)
(***************************************************************************)
\* C28: when execute fails on a call that can fail transiently (loading the
\* policy, building, signing and broadcasting the transfer, the store write),
\* the fee stays pending: the failure handling of the executor leaves a
\* pending fee pending.
C28_TransientFailureKeepsPending ==
    [][\A w \in Workers :
         (/\ worker[w].pc = "exec_failed"
          /\ worker[w].err \in ExecuteErrors \cup {"failed to mark as submitted"}
          /\ worker'[w].pc = "execute") =>
            \A r \in listing_fees :
                (r.policy_id = worker[w].policyID /\ r.status = "pending") =>
                    r \in listing_fees'
      ]_vars

ConfiguredAmount == SetString10(feeConfig.FeeAmount)

LifecycleDone(p) ==
    /\ HasRow(listing_fees, p)
    /\ LET r == RowOf(listing_fees, p)
       IN  /\ r.status = "paid"
           /\ r.paid_at # NULL
           /\ r.submitted_at # NULL
           /\ BroadcastCount(p) = 1
           /\ r.tx_hash = Some(broadcasts[p][1].tx_hash)
           /\ r.amount = ConfiguredAmount
           /\ r.destination = feeConfig.TreasuryAddress
    /\ plugin_policies[p] = Completed

\* C29: in a failure-free run every active policy without a fee record gets
\* through the lifecycle, in order: one pending record is created with the
\* configured amount and destination; it is moved to submitted with the hash
\* of its one broadcast; then to paid with paid_at set; then the policy is
\* set inactive with reason 'completed'; no step happens out of that order.
C29_Lifecycle ==
    /\ \A p \in Policies :
          (plugin_policies[p].active /\ ~HasRow(listing_fees, p)) ~> LifecycleDone(p)
    /\ [][\A p \in Policies :
             /\ Cardinality({r \in listing_fees' : r.policy_id = p}) <= 1
             /\ (~HasRow(listing_fees, p) /\ HasRow(listing_fees', p)) =>
                   LET r2 == RowOf(listing_fees', p)
                   IN  /\ r2.status = "pending"
                       /\ r2.amount = ConfiguredAmount
                       /\ r2.destination = feeConfig.TreasuryAddress
                       /\ r2.tx_hash = NULL
                       /\ plugin_policies[p].active
             /\ HasRow(listing_fees, p) =>
                   /\ HasRow(listing_fees', p)
                   /\ LET r == RowOf(listing_fees, p)
                          r2 == RowOf(listing_fees', p)
                      IN  r2.status # r.status =>
                            \/ /\ r.status = "pending" /\ r2.status = "submitted"
                               /\ BroadcastCount(p) = 1
                               /\ r2.tx_hash = Some(broadcasts[p][1].tx_hash)
                               /\ r2.submitted_at # NULL
                            \/ /\ r.status = "submitted" /\ r2.status = "paid"
                               /\ r2.paid_at # NULL
                               /\ r2.tx_hash = r.tx_hash
                               /\ tx_indexer[p][1].status_onchain = "SUCCESS"
             /\ (plugin_policies[p].active /\ ~plugin_policies'[p].active) =>
                   /\ p \in PaidPolicies(listing_fees)
                   /\ plugin_policies'[p] = Completed
       ]_vars

\* Both policies have gone through the whole lifecycle.
C29_Witness == \A p \in Policies : LifecycleDone(p)

\* C30: a fee whose transfer was broadcast and is reported successful on
\* chain reaches paid, also when the write of 'submitted' failed after the
\* broadcast; failed being final, such a fee is never failed.
C30_BroadcastSuccessLeadsToPaid ==
    \A r \in listing_fees :
        (\E i \in DOMAIN tx_indexer[r.policy_id] :
             tx_indexer[r.policy_id][i].status_onchain = "SUCCESS") =>
            r.status # "failed"

(***************************************************************************)
(* The order of broadcast and write, and the fields of a record.           *)
(***************************************************************************)
\* C31: the broadcast comes before the status write: a submitted fee has had
\* a transfer broadcast for its policy; while the worker stands between
\* SignAndBroadcast and MarkAsSubmitted the fee is pending with tx_hash and
\* submitted_at unset; and a crash at that point leaves the table as it was.
C31_BroadcastBeforeWrite ==
    /\ [](\A r \in listing_fees : r.status = "submitted" => BroadcastCount(r.policy_id) >= 1)
    /\ [](worker["w1"].pc = "sent" =>
            /\ BroadcastCount(worker["w1"].policyID) >= 1
            /\ HasRow(listing_fees, worker["w1"].policyID)
            /\ LET r == RowOf(listing_fees, worker["w1"].policyID)
               IN  /\ r.status = "pending"
                   /\ r.tx_hash = NULL
                   /\ r.submitted_at = NULL)
    /\ [][(worker["w1"].pc = "sent" /\ worker'["w1"].pc = "idle") =>
             listing_fees' = listing_fees]_vars

\* After a crash between the broadcast and the write: the worker is back in
\* its loop, a transfer was sent for the fee, and the fee is pending with no
\* hash.
C31_Witness ==
    /\ worker["w1"].pc = "idle"
    /\ \E r \in listing_fees :
          /\ r.status = "pending"
          /\ r.tx_hash = NULL
          /\ r.submitted_at = NULL
          /\ BroadcastCount(r.policy_id) >= 1

FieldsAgree(r) ==
    /\ r.status = "pending" =>
          r.tx_hash = NULL /\ r.submitted_at = NULL /\ r.paid_at = NULL
          /\ r.failure_reason = NULL
    /\ r.status = "submitted" =>
          r.tx_hash # NULL /\ r.submitted_at # NULL /\ r.paid_at = NULL
          /\ r.failure_reason = NULL
    /\ r.status = "paid" =>
          r.tx_hash # NULL /\ r.submitted_at # NULL /\ r.paid_at # NULL
          /\ r.failure_reason = NULL
    /\ r.status = "failed" => r.failure_reason # NULL /\ r.paid_at = NULL

\* C32: in every state the optional fields of each fee agree with its status:
\* pending has no tx_hash, submitted_at, paid_at or failure_reason; submitted
\* has tx_hash and submitted_at and no paid_at or failure_reason; paid has
\* tx_hash, submitted_at and paid_at and no failure_reason; failed has a
\* failure_reason and no paid_at.
C32_FieldsAgreeWithStatus == \A r \in listing_fees : FieldsAgree(r)

\* A paid fee next to a fee that failed after it was submitted.
C32_Witness ==
    \E r1, r2 \in listing_fees :
        /\ r1.status = "paid"
        /\ r2.status = "failed"
        /\ r2.tx_hash # NULL

(***************************************************************************)
(* One fee per policy.                                                     *)
(***************************************************************************)
\* C38: at most one fee exists per policy_id, and CreateListingFee for a
\* policy that already has a fee, in whatever status and with whatever
\* configured amount and destination, inserts nothing, returns no error and
\* leaves the table as it was.
C38_OneFeePerPolicy ==
    /\ \A p \in Policies : Cardinality({r \in listing_fees : r.policy_id = p}) <= 1
    /\ \A p \in Policies : \A cfg \in FeeConfigs :
          HasRow(listing_fees, p) =>
            CreateListingFee(listing_fees,
                PendingFee(p, PolicyConfiguration(p)["targetPluginId"], cfg), now)
              = Result(listing_fees, 0, "")

\* A policy whose fee has left pending, while the scope has no pending fee,
\* so that only the policy_id constraint stands against a second insert.
C38_Witness ==
    \E r \in listing_fees :
        /\ r.status \in {"submitted", "paid", "failed"}
        /\ PendingOfScope(listing_fees, RowScope(r)) = {}

(***************************************************************************)
(* The two settlement implementations.                                     *)
(***************************************************************************)
\* What the oracle can say about a transaction: the on-chain result ("" is
\* not yet known) and the lost flag.
OracleStates == [status_onchain : {"", "SUCCESS", "FAIL"}, lost : BOOLEAN]

\* tx_indexer holding the one transaction tx for policyID.
SingleTx(policyID, tx) == [q \in Policies |-> IF q = policyID THEN <<tx>> ELSE <<>>]

\* PostgresBackend.SyncSubmittedFees: the paid query, then the failed query.
SyncSubmittedFees(rows, ti, pick, t) ==
    SyncFailedFees(SyncPaidFees(rows, ti, t).rows, ti, pick, t).rows

\* C37: for every submitted fee and every oracle state, the per-record pass
\* of the syncer and the bulk pass of the worker leave the fee with the same
\* status and the same failure_reason.
C37_SettlementImplementationsAgree ==
    \A r \in listing_fees : \A tx \in OracleStates :
        r.status = "submitted" =>
          LET ti     == SingleTx(r.policy_id, tx)
              bySync == RowOf(SyncFee(listing_fees, ti, r.policy_id, now), r.policy_id)
              byBulk == RowOf(SyncSubmittedFees(listing_fees, ti,
                                                [p \in Policies |-> 1], now), r.policy_id)
          IN  /\ bySync.status = byBulk.status
              /\ bySync.failure_reason = byBulk.failure_reason

(***************************************************************************)
(* The worker cycle under fair scheduling, with every store call answered.  *)
(***************************************************************************)
\* The steps of Run and process with no crash of the process.
FairWorker(w) ==
    \/ WorkerTick(w)
    \/ WorkerCreate(w)
    \/ WorkerExecuteQuery(w)
    \/ WorkerExecuteLoad(w)
    \/ WorkerBroadcast(w)
    \/ WorkerBroadcastFails(w)
    \/ WorkerMarkSubmitted(w)
    \/ WorkerMarkFailed(w)
    \/ WorkerSyncPaid(w)
    \/ WorkerSyncFailed(w)
    \/ WorkerSyncFails(w)
    \/ WorkerDeactivateQuery(w)
    \/ WorkerDeactivate(w)
    \/ WorkerCycleDone(w)

NextFair == FairWorker("w1") \/ OracleNext

\* The ticker of Run fires again and again and every call of a cycle returns.
SpecFair == Init /\ [][NextFair]_vars /\ WF_vars(FairWorker("w1"))

IsPending(rows, p) == \E r \in rows : r.policy_id = p /\ r.status = "pending"

\* Every pending fee leaves pending, and each step out of pending is the
\* write of the executor: to submitted with the hash of the broadcast that
\* has returned, or to failed with the error of execute as failure_reason.
PendingLeaves ==
    /\ \A p \in Policies : IsPending(listing_fees, p) ~> ~IsPending(listing_fees, p)
    /\ [][\A p \in Policies :
            (IsPending(listing_fees, p) /\ ~IsPending(listing_fees', p)) =>
              /\ HasRow(listing_fees', p)
              /\ worker["w1"].policyID = p
              /\ LET r == RowOf(listing_fees', p)
                 IN  \/ /\ r.status = "submitted"
                        /\ worker["w1"].pc = "sent"
                        /\ r.tx_hash = worker["w1"].txHash
                     \/ /\ r.status = "failed"
                        /\ worker["w1"].pc = "exec_failed"
                        /\ r.failure_reason = Some(worker["w1"].err)]_vars

\* An execution attempt that has ended leaves its fee out of pending.
AttemptLeavesPending ==
    [][(worker["w1"].pc \in {"sent", "exec_failed"} /\ worker'["w1"].pc = "execute") =>
          ~IsPending(listing_fees', worker["w1"].policyID)]_vars

\* C34 as stated: under fair scheduling and an available store every pending
\* fee eventually leaves pending, to submitted when its broadcast succeeds and
\* otherwise to failed with the execution error; after an attempt a fee is
\* not pending.
C34_NoFeeStuckInPending ==
    /\ PendingLeaves
    /\ AttemptLeavesPending
    /\ [][(worker["w1"].pc = "sent" /\ worker'["w1"].pc # "sent") =>
             \E r \in listing_fees' :
                 r.policy_id = worker["w1"].policyID /\ r.status = "submitted"]_vars

\* C34 amended: under fair scheduling and an available store every pending
\* fee eventually leaves pending: to submitted when its broadcast succeeds
\* and the returned hash is stored, to failed with the execution error as
\* failure_reason otherwise, which includes a MarkAsSubmitted that the
\* tx_hash UNIQUE constraint rejects after a successful broadcast; after an
\* attempt a fee is not pending.
C34_NoFeeStuckInPending_Amended ==
    /\ PendingLeaves
    /\ AttemptLeavesPending
    /\ [][(worker["w1"].pc = "sent" /\ worker'["w1"].pc # "sent") =>
             \/ \E r \in listing_fees' :
                   /\ r.policy_id = worker["w1"].policyID
                   /\ r.status = "submitted"
                   /\ r.tx_hash = worker["w1"].txHash
             \/ /\ TxHashConflict(listing_fees, worker["w1"].policyID, worker["w1"].txHash[1])
                /\ worker'["w1"].pc = "exec_failed"
                /\ worker'["w1"].err = "failed to mark as submitted"]_vars

\* A fee that failed on the write after its broadcast next to one that was
\* submitted.
C34_Witness ==
    \E r1, r2 \in listing_fees :
        /\ r1.status \in {"submitted", "paid"}
        /\ r2.status = "failed"
        /\ r2.failure_reason = Some("failed to mark as submitted")
        /\ BroadcastCount(r2.policy_id) >= 1

(***************************************************************************)
(* A policy that its owner, the policy service, has deactivated.           *)
(***************************************************************************)
\* plugin_policies row of a policy deactivated by the service that owns the
\* table: active is false and this program has recorded no reason.
DeactivatedByOwner == [active |-> FALSE, deactivation_reason |-> NULL]

\* The start with the second policy deactivated before it has a fee.
InitDeactivated ==
    /\ listing_fees = {}
    /\ plugin_policies = [p \in Policies |->
            IF p = 2 THEN DeactivatedByOwner
            ELSE [active |-> TRUE, deactivation_reason |-> NULL]]
    /\ tx_indexer = [p \in Policies |-> <<>>]
    /\ feeConfig = InitialFeeConfig
    /\ now = 0
    /\ broadcasts = [p \in Policies |-> <<>>]
    /\ worker = [w \in Workers |-> WorkerIdle]
    /\ syncer = SyncerIdle
    /\ api = ApiIdle
    /\ last = NoCall
    /\ queue = <<>>
    /\ ctx = [x \in Processes |-> "live"]

\* A worker, the API server with its lazy creation, and the indexer.
NextDeactivated == WorkerNext("w1") \/ ApiNext \/ OracleNext

SpecDeactivated == InitDeactivated /\ [][NextDeactivated]_vars

\* C36: a fee is created only for a policy that is active at that moment,
\* by the discovery pass and by the lazy creation of the API alike, and no
\* transfer is broadcast for a policy that was deactivated before its fee was
\* created (such a policy is inactive and was not deactivated as completed).
C36_CreatedOnlyForActive ==
    /\ [][\A p \in Policies :
            (~HasRow(listing_fees, p) /\ HasRow(listing_fees', p)) =>
                plugin_policies[p].active]_vars
    /\ [](\A p \in Policies :
            BroadcastCount(p) >= 1 =>
                plugin_policies[p].active \/ plugin_policies[p] = Completed)

(***************************************************************************)
(* Discovery after a failed execution.                                     *)
(***************************************************************************)
\* The worker and the tx syncer, both scheduled fairly, and the indexer, on a
\* scope with one active policy.
NextRecreate == FairWorker("w1") \/ SyncerNext \/ OracleNext

SpecRecreate ==
    /\ InitDeactivated
    /\ [][NextRecreate]_vars
    /\ WF_vars(FairWorker("w1"))
    /\ WF_vars(SyncerNext)

\* The fee of policy p is the only fee of its scope and the executor has
\* moved it from pending to failed (no hash was ever stored for it).
OnlyFeeFailedByExecutor(p) ==
    /\ HasRow(listing_fees, p)
    /\ LET r == RowOf(listing_fees, p)
       IN  /\ r.status = "failed"
           /\ r.tx_hash = NULL
           /\ r.failure_reason \in {Some(e) : e \in ExecuteErrors}
           /\ {x \in listing_fees : RowScope(x) = RowScope(r)} = {r}

\* C33: once the executor has moved the only fee of a scope from pending to
\* failed while its policy is still active, a later discovery pass creates a
\* fresh pending fee for that scope.
C33_FailedDoesNotBlockRecreation ==
    \A p \in Policies :
        (OnlyFeeFailedByExecutor(p) /\ plugin_policies[p].active)
          ~> (\E r \in listing_fees : RowScope(r) = PolicyScope(p) /\ r.status = "pending")

(***************************************************************************)
(* The passes as functions of the tables, alone and overlapping.           *)
(***************************************************************************)
\* The status of the fee of each policy ("none" when it has no fee).
StatusOf(rows) ==
    [p \in Policies |-> IF HasRow(rows, p) THEN RowOf(rows, p).status ELSE "none"]

\* createListingFee for one policy of the batch.
CreateFor(rows, p, cfg, t) ==
    CreateListingFee(rows, PendingFee(p, PolicyConfiguration(p)["targetPluginId"], cfg), t).rows

\* The loop of createListingFeesForNewPolicies over its batch; the query has
\* no ORDER BY, so the batch is taken in any order.
RECURSIVE CreateEach(_, _, _, _)
CreateEach(rows, batch, cfg, t) ==
    IF batch = {} THEN {rows}
    ELSE UNION {CreateEach(CreateFor(rows, p, cfg, t), batch \ {p}, cfg, t) : p \in batch}

\* One discovery pass: the tables it can leave.
DiscoveryPass(rows, pp, cfg, t) ==
    CreateEach(rows, GetUnprocessedPolicyIDs(rows, pp), cfg, t)

\* The loops of two workers that have both read their batch, interleaved.
RECURSIVE CreateInterleaved(_, _, _, _, _)
CreateInterleaved(rows, a, b, cfg, t) ==
    IF a = {} /\ b = {} THEN {rows}
    ELSE UNION ({CreateInterleaved(CreateFor(rows, p, cfg, t), a \ {p}, b, cfg, t) : p \in a}
                \cup {CreateInterleaved(CreateFor(rows, p, cfg, t), a, b \ {p}, cfg, t) : p \in b})

DiscoveryOverlap(rows, pp, cfg, t) ==
    CreateInterleaved(rows, GetUnprocessedPolicyIDs(rows, pp),
                      GetUnprocessedPolicyIDs(rows, pp), cfg, t)

\* The second statement of SyncSubmittedFees, from any joined row.
SyncFailedAny(rows, ti, t) ==
    {SyncFailedFees(rows, ti, pick, t).rows : pick \in JoinPicks(rows, ti)}

\* One settlement pass of the worker: the tables it can leave.
WorkerSettlementPass(rows, ti, t) == SyncFailedAny(SyncPaidFees(rows, ti, t).rows, ti, t)

\* One pass of the tx syncer over the submitted fees it has read.
RECURSIVE SyncEach(_, _, _, _)
SyncEach(rows, batch, ti, t) ==
    IF batch = {} THEN rows
    ELSE LET p == CHOOSE q \in batch : TRUE
         IN  SyncEach(SyncFee(rows, ti, p, t), batch \ {p}, ti, t)

SyncerPass(rows, ti, t) ==
    SyncEach(rows, {r.policy_id : r \in GetSubmittedListingFees(rows)}, ti, t)

\* The settlement passes of two workers interleaved: k1 and k2 count the
\* statements of SyncSubmittedFees each worker has run.
RECURSIVE SettleInterleaved(_, _, _, _, _)
SettleInterleaved(rows, k1, k2, ti, t) ==
    LET step(k) == IF k = 0 THEN {SyncPaidFees(rows, ti, t).rows}
                   ELSE SyncFailedAny(rows, ti, t)
    IN  IF k1 = 2 /\ k2 = 2 THEN {rows}
        ELSE UNION ((IF k1 < 2
                     THEN {SettleInterleaved(x, k1 + 1, k2, ti, t) : x \in step(k1)}
                     ELSE {})
                    \cup (IF k2 < 2
                          THEN {SettleInterleaved(x, k1, k2 + 1, ti, t) : x \in step(k2)}
                          ELSE {}))

WorkersOverlap(rows, ti, t) == SettleInterleaved(rows, 0, 0, ti, t)

\* The settlement pass of a worker interleaved with a pass of the tx syncer
\* over the batch it has read.
RECURSIVE SettleWithSyncer(_, _, _, _, _)
SettleWithSyncer(rows, k, batch, ti, t) ==
    LET step == IF k = 0 THEN {SyncPaidFees(rows, ti, t).rows}
                ELSE SyncFailedAny(rows, ti, t)
    IN  IF k = 2 /\ batch = {} THEN {rows}
        ELSE UNION ((IF k < 2
                     THEN {SettleWithSyncer(x, k + 1, batch, ti, t) : x \in step}
                     ELSE {})
                    \cup {SettleWithSyncer(SyncFee(rows, ti, p, t), k, batch \ {p}, ti, t) :
                             p \in batch})

SyncerOverlap(rows, ti, t) ==
    SettleWithSyncer(rows, 0, {r.policy_id : r \in GetSubmittedListingFees(rows)}, ti, t)

\* A second run of a pass on what the first has left changes no record.
PassesIdempotent ==
    /\ \A out \in DiscoveryPass(listing_fees, plugin_policies, feeConfig, now) :
          DiscoveryPass(out, plugin_policies, feeConfig, now) = {out}
    /\ \A out \in WorkerSettlementPass(listing_fees, tx_indexer, now) :
          WorkerSettlementPass(out, tx_indexer, now) = {out}
    /\ SyncerPass(SyncerPass(listing_fees, tx_indexer, now), tx_indexer, now)
          = SyncerPass(listing_fees, tx_indexer, now)

\* Two workers overlapping leave the statuses a single pass can leave.
WorkersOverlapSafe ==
    /\ {StatusOf(o) : o \in DiscoveryOverlap(listing_fees, plugin_policies, feeConfig, now)}
          \subseteq
        {StatusOf(o) : o \in DiscoveryPass(listing_fees, plugin_policies, feeConfig, now)}
    /\ {StatusOf(o) : o \in WorkersOverlap(listing_fees, tx_indexer, now)}
          \subseteq
        {StatusOf(o) : o \in WorkerSettlementPass(listing_fees, tx_indexer, now)}

\* The worker and the syncer overlapping leave each fee, whatever the
\* interleaving, with the status that one of the two passes leaves it with
\* when it runs alone.
SyncerOverlapSafe ==
    \A p \in Policies :
        \E single \in WorkerSettlementPass(listing_fees, tx_indexer, now)
                        \cup {SyncerPass(listing_fees, tx_indexer, now)} :
            \A o \in SyncerOverlap(listing_fees, tx_indexer, now) :
                StatusOf(o)[p] = StatusOf(single)[p]

\* C35: the discovery and settlement passes are idempotent and safe to
\* overlap: a second run with the same policies and the same oracle state
\* changes no record, and two passes overlapping in any interleaving, of two
\* workers or of the worker and the syncer, leave every fee with the status
\* a single pass leaves it with.
C35_PassesIdempotentAndSafeToOverlap ==
    /\ PassesIdempotent
    /\ WorkersOverlapSafe
    /\ SyncerOverlapSafe

====
